---- MODULE Spec2Model ----
(***************************************************************************)
(* Rewards-Sharing-Simulation-Engine: the agent decision engine            *)
(* (logic/stakeholder.py), the pool entity (logic/pool.py), the strategy   *)
(* value object (logic/strategy.py) and the simulation coordinator         *)
(* (logic/sim.py) as a state machine.                                      *)
(*                                                                         *)
(* Stake, cost and profit are integers (one unit is half a                 *)
(* MIN_STAKE_UNIT of stake); margins and desirabilities are exact          *)
(* rationals <<numerator, denominator>>.  None is modelled by the pool     *)
(* id 0 in the rankings and by a record with some = FALSE for a strategy.  *)
(***************************************************************************)
EXTENDS Integers, Sequences, FiniteSets, TLC

VARIABLES
    agent_activation_order,   \* Simulation.agent_activation_order
    stake,                    \* Stakeholder.stake, per agent
    strategy,                 \* Stakeholder.strategy, per agent
    new_strategy,             \* Stakeholder.new_strategy, per agent (None or a Strategy)
    pools,                    \* Simulation.pools: pool id -> Pool
    pool_rankings,            \* Simulation.pool_rankings (SortedList: stored key, pool id)
    pool_rankings_myopic,     \* Simulation.pool_rankings_myopic
    id_seq,                   \* Simulation.id_seq
    steps,                    \* schedule.steps
    current_phase,            \* Simulation.current_phase
    consecutive_idle_steps,   \* Simulation.consecutive_idle_steps
    current_step_idle,        \* Simulation.current_step_idle
    running,                  \* Simulation.running
    pc,                       \* position of run_model / Simulation.step / schedule.step
    stepped,                  \* agents whose step() ran in the current round
    advanced,                 \* agents whose advance() ran in the current round
    err,                      \* "none", or the exception that ended the run
    trace,                    \* observations of the last handler (for the properties)
    probe                     \* the object under test of the unit-level specifications

vars == <<agent_activation_order, stake, strategy, new_strategy, pools, pool_rankings,
          pool_rankings_myopic, id_seq, steps, current_phase, consecutive_idle_steps,
          current_step_idle, running, pc, stepped, advanced, err, trace, probe>>

simvars == <<agent_activation_order, stake, strategy, new_strategy, pools, pool_rankings,
             pool_rankings_myopic, id_seq, steps, current_phase, consecutive_idle_steps,
             current_step_idle, running, pc, stepped, advanced, err, trace>>

----------------------------------------------------------------------------
(* Bounds of the model *)

NumAgents == 2
MaxPoolId == 6
MaxAmount == 3
MaxStake == 8
MaxThreshold == 1
MaxK == 4
MaxU == 2
MaxRanked == 3
MaxDelegate == 5

Agents == 0 .. (NumAgents - 1)

----------------------------------------------------------------------------
(* Helpers: finite maps, sums, rationals *)

Max2(a, b) == IF a >= b THEN a ELSE b
Min2(a, b) == IF a <= b THEN a ELSE b

EmptyMap == [x \in {} |-> 0]

MapRemove(f, x) == [y \in (DOMAIN f) \ {x} |-> f[y]]

MapPut(f, x, v) == [y \in (DOMAIN f) \cup {x} |-> IF y = x THEN v ELSE f[y]]

RECURSIVE SumOver(_, _)
SumOver(f, S) ==
    IF S = {} THEN 0
    ELSE LET x == CHOOSE y \in S : TRUE
         IN  f[x] + SumOver(f, S \ {x})

SumMap(f) == SumOver(f, DOMAIN f)

\* With(v, LAMBDA x : e) is e with x bound to the value v
With(v, Body(_)) == Body(v)

----------------------------------------------------------------------------
(* logic/helper.py (not in src/): the minimum stake unit *)

MIN_STAKE_UNIT == 2

----------------------------------------------------------------------------
(* logic/pool.py *)

\* Pool.update_delegation(new_delegation, delegator_id), lines 34-40
\* Pool.update_delegation without lines 39-40
update_delegation_unpruned(pool, new_delegation, delegator_id) ==
    [pool EXCEPT
        !.stake = (IF delegator_id \in DOMAIN pool.delegators
                   THEN @ - pool.delegators[delegator_id] ELSE @) + new_delegation,
        !.delegators = MapPut(@, delegator_id, new_delegation)]

update_delegation(pool, new_delegation, delegator_id) ==
    LET s1 == IF delegator_id \in DOMAIN pool.delegators
              THEN pool.stake - pool.delegators[delegator_id]
              ELSE pool.stake
        s2 == s1 + new_delegation
        d1 == MapPut(pool.delegators, delegator_id, new_delegation)
        d2 == IF d1[delegator_id] < MIN_STAKE_UNIT
              THEN MapRemove(d1, delegator_id)
              ELSE d1
    IN  [pool EXCEPT !.stake = s2, !.delegators = d2]

----------------------------------------------------------------------------
(* Exact rationals <<n, d>>, d > 0, in lowest terms *)

Abs(x) == IF x < 0 THEN -x ELSE x

RECURSIVE Gcd(_, _)
Gcd(a, b) == IF b = 0 THEN a ELSE Gcd(b, a % b)

Rat(n, d) ==
    LET g == Gcd(Abs(n), d)
    IN  IF n = 0 THEN <<0, 1>> ELSE <<n \div g, d \div g>>

RatInt(i) == <<i, 1>>
RatNeg(x) == <<-x[1], x[2]>>
RatLess(x, y) == x[1] * y[2] < y[1] * x[2]
RatLeq(x, y) == x[1] * y[2] <= y[1] * x[2]
RatMax(x, y) == IF RatLess(x, y) THEN y ELSE x
\* (1 - m) * p for a rational m and an integer p
OneMinusTimes(m, p) == Rat((m[2] - m[1]) * p, m[2])

\* Python's comparison of tuples (of rationals here): lexicographic, a proper
\* prefix is smaller.
RECURSIVE TupleLess(_, _)
TupleLess(s, t) ==
    IF s = <<>> THEN t # <<>>
    ELSE IF t = <<>> THEN FALSE
    ELSE IF RatLess(Head(s), Head(t)) THEN TRUE
    ELSE IF RatLess(Head(t), Head(s)) THEN FALSE
    ELSE TupleLess(Tail(s), Tail(t))

----------------------------------------------------------------------------
(* The reward scheme and logic/helper.py (external collaborators, not in    *)
(* src/): modelled from their contracts in the specification.              *)

\* reward_scheme.k, the target number of pools
k == 2
\* reward_scheme.global_saturation_threshold
global_saturation_threshold == 4
\* the multi-valued a0 parameter list, one value per phase (in tenths)
a0_values == <<3, 1>>
\* Simulation.total_phases: the longest multi-valued parameter list
total_phases == Len(a0_values)
\* reward_scheme.a0 in phase ph; a list shorter than the phase keeps its last value
a0_of(ph) == a0_values[Min2(ph + 1, Len(a0_values))]

\* reward_scheme.get_pool_saturation_threshold(pledge)
get_pool_saturation_threshold(pledge) == global_saturation_threshold

\* the reward of a pool: non-decreasing in stake and pledge, capped at saturation
calculate_pool_reward(pool_stake, pledge, a0) ==
    2 * Min2(pool_stake, global_saturation_threshold)
        + a0 * Min2(pledge, global_saturation_threshold)

\* hlp.calculate_potential_profit: the profit of the pool at saturation
calculate_potential_profit(pledge, cost, a0) ==
    calculate_pool_reward(Max2(global_saturation_threshold, pledge), pledge, a0) - cost

\* hlp.calculate_current_profit: the profit of the pool at its current stake
calculate_current_profit(pool_stake, pledge, cost, a0) ==
    calculate_pool_reward(pool_stake, pledge, a0) - cost

\* hlp.calculate_pool_desirability: max((1 - margin) * potential_profit, 0)
calculate_pool_desirability(margin, potential_profit) ==
    RatMax(OneMinusTimes(margin, potential_profit), RatInt(0))

\* hlp.calculate_myopic_pool_desirability: max((1 - margin) * current_profit, 0)
calculate_myopic_pool_desirability(margin, current_profit) ==
    RatMax(OneMinusTimes(margin, current_profit), RatInt(0))

\* hlp.calculate_suitable_margin: the margin that brings the desirability of a
\* pool with this potential profit down to the target
calculate_suitable_margin(potential_profit, target_desirability) ==
    IF potential_profit > 0
    THEN RatMax(Rat(potential_profit - target_desirability, potential_profit), RatInt(0))
    ELSE RatInt(0)

\* hlp.calculate_cost_per_pool: the first pool costs initial_cost, every further
\* pool a fraction (modelled as one half) of it; the average is returned
calculate_cost_per_pool(num_pools, initial_cost) ==
    (initial_cost + (num_pools - 1) * (initial_cost \div 2)) \div num_pools

\* hlp.calculate_pledge_per_pool: the stake split evenly, capped at saturation
calculate_pledge_per_pool(agent_stake, num_pools) ==
    Min2(agent_stake \div num_pools, global_saturation_threshold)

\* hlp.pool_comparison_key: (-desirability, -potential_profit, id); None -> (0, 0, 0)
pool_comparison_key(pool) ==
    <<RatNeg(pool.desirability), RatInt(-pool.potential_profit), RatInt(pool.id)>>

NoneKey == <<RatInt(0), RatInt(0), RatInt(0)>>

----------------------------------------------------------------------------
(* logic/pool.py, continued *)

\* Pool.set_profit, lines 28-29
set_profit(pool, a0) ==
    [pool EXCEPT !.potential_profit = calculate_potential_profit(pool.pledge, pool.cost, a0)]

\* Pool.set_desirability, lines 31-32
set_desirability(pool) ==
    [pool EXCEPT !.desirability = calculate_pool_desirability(pool.margin, pool.potential_profit)]

\* the margin setter, lines 21-26: the desirability follows the margin
set_margin(pool, m) == set_desirability([pool EXCEPT !.margin = m])

\* Pool.__init__, lines 5-15 (margin=-1 by default)
NewPool(pool_id, cost, pledge, owner, a0, margin, is_private) ==
    set_desirability(set_profit(
        [id |-> pool_id, cost |-> cost, pledge |-> pledge, stake |-> pledge,
         owner |-> owner, is_private |-> is_private, delegators |-> EmptyMap,
         potential_profit |-> 0, margin |-> margin, desirability |-> RatInt(0)], a0))

DefaultMargin == RatInt(-1)

----------------------------------------------------------------------------
(* sortedcontainers.SortedList with a key function, as logic/sim.py uses it: *)
(* the list keeps every element with the key computed when it was added,    *)
(* ordered by that stored key.  An element is a pool id (0 for None).       *)

NoneEntry == [key |-> NoneKey, id |-> 0]

\* SortedList([None] * (k + 1), key=...), sim.py lines 108-111
InitialRanking == [i \in 1 .. (k + 1) |-> NoneEntry]

\* SortedList.add: insert to the right of every stored key that is not greater
SortedListAdd(list, key, id) ==
    LET n == Cardinality({i \in 1 .. Len(list) : ~TupleLess(key, list[i].key)})
    IN  SubSeq(list, 1, n) \o <<[key |-> key, id |-> id]>> \o SubSeq(list, n + 1, Len(list))

\* SortedList.remove finds the element by its current key; ValueError otherwise
SortedListHas(list, key, id) ==
    \E i \in 1 .. Len(list) : list[i] = [key |-> key, id |-> id]

SortedListRemove(list, key, id) ==
    LET i == CHOOSE j \in 1 .. Len(list) : list[j] = [key |-> key, id |-> id]
    IN  SubSeq(list, 1, i - 1) \o SubSeq(list, i + 1, Len(list))

\* Simulation.pool_comparison_key_myopic, sim.py lines 427-436
pool_comparison_key_myopic(pool, a0) ==
    LET current_profit ==
            calculate_current_profit(pool.stake, pool.pledge, pool.cost, a0)
        myopic_desirability ==
            calculate_myopic_pool_desirability(pool.margin, current_profit)
    IN  <<RatNeg(myopic_desirability), RatInt(pool.id)>>

----------------------------------------------------------------------------
(* logic/strategy.py *)

\* Strategy.__init__, lines 15-30: no allocations and no owned pools by default.
\* `some` is FALSE for None (Stakeholder.new_strategy before a move is chosen).
Strategy(stake_allocations, owned_pools) ==
    [some |-> TRUE, stake_allocations |-> stake_allocations, owned_pools |-> owned_pools]

EmptyStrategy == Strategy(EmptyMap, EmptyMap)

None == [some |-> FALSE, stake_allocations |-> EmptyMap, owned_pools |-> EmptyMap]

----------------------------------------------------------------------------
(* The shared state a handler works on, as one record w:                    *)
(*   pools, pr (pool_rankings), prm (pool_rankings_myopic), strategy,       *)
(*   new_strategy, id_seq, phase, order, idle (current_step_idle), err,     *)
(*   log (the shared resources written so far by the running handler),      *)
(*   executed (the agents whose execute_strategy the handler entered),      *)
(*   closed (the pools close_pool returned for, with their delegators).     *)
(* The current strategy of an agent holds its owned pools by reference:     *)
(* strategy[a].owned_pools is the set of their ids and the Pool objects are *)
(* the ones of the pool table.  A candidate strategy holds its own copies.  *)

Fail(w, e) == IF w.err = "none" THEN [w EXCEPT !.err = e] ELSE w

Ok(w) == w.err = "none"

\* ascending sequence of the elements of a finite set of integers
RECURSIVE SortedSeq(_)
SortedSeq(S) ==
    IF S = {} THEN <<>>
    ELSE LET m == CHOOSE x \in S : \A y \in S : x <= y
         IN  <<m>> \o SortedSeq(S \ {m})

\* pool_rankings.remove(pool)
RankingsRemove(w, pool) ==
    IF ~Ok(w) THEN w
    ELSE IF ~SortedListHas(w.pr, pool_comparison_key(pool), pool.id)
    THEN Fail(w, "ValueError: pool_rankings.remove")
    ELSE [w EXCEPT !.pr = SortedListRemove(w.pr, pool_comparison_key(pool), pool.id),
                   !.log = @ \cup {<<"pool_rankings">>}]

\* pool_rankings.add(pool)
RankingsAdd(w, pool) ==
    IF ~Ok(w) THEN w
    ELSE [w EXCEPT !.pr = SortedListAdd(w.pr, pool_comparison_key(pool), pool.id),
                   !.log = @ \cup {<<"pool_rankings">>}]

\* pool_rankings_myopic.remove(pool)
MyopicRemove(w, pool) ==
    IF ~Ok(w) THEN w
    ELSE LET key == pool_comparison_key_myopic(pool, a0_of(w.phase))
         IN  IF ~SortedListHas(w.prm, key, pool.id)
             THEN Fail(w, "ValueError: pool_rankings_myopic.remove")
             ELSE [w EXCEPT !.prm = SortedListRemove(w.prm, key, pool.id),
                            !.log = @ \cup {<<"pool_rankings_myopic">>}]

\* pool_rankings_myopic.add(pool)
MyopicAdd(w, pool) ==
    IF ~Ok(w) THEN w
    ELSE [w EXCEPT !.prm = SortedListAdd(w.prm,
                                pool_comparison_key_myopic(pool, a0_of(w.phase)), pool.id),
                   !.log = @ \cup {<<"pool_rankings_myopic">>}]

\* the table's Pool object is in the list
RankedIn(list, pool_id) == \E i \in 1 .. Len(list) : list[i].id = pool_id

\* A field of the table's Pool object is about to change: w.unsorted takes the
\* pool when a ranking whose key reads the field still holds the object.  The
\* key of pool_rankings reads desirability and potential_profit, the key of
\* pool_rankings_myopic reads stake, pledge, cost and margin.
Mutating(w, pool_id, fields) ==
    IF \/ fields \cap {"desirability", "potential_profit", "margin"} # {}
             /\ RankedIn(w.pr, pool_id)
       \/ fields \cap {"stake", "pledge", "cost", "margin"} # {}
             /\ RankedIn(w.prm, pool_id)
    THEN [w EXCEPT !.unsorted = @ \cup {pool_id}]
    ELSE w

\* pool.update_delegation on a pool of the table (the object is shared by the
\* table, the rankings and the owner's strategy)
PoolUpdateDelegation(w, pool_id, new_delegation, delegator_id) ==
    IF ~Ok(w) THEN w
    ELSE [Mutating(w, pool_id, {"stake"})
              EXCEPT !.pools[pool_id] = update_delegation(@, new_delegation, delegator_id),
                     !.log = @ \cup {<<"pool", pool_id>>}]

\* lines 238-241 without the remove and the add: the pool stays in the myopic
\* ranking while its stake changes
SetDelegation_in_place(w, pool_id, new_delegation, delegator_id) ==
    IF ~Ok(w) THEN w
    ELSE IF pool_id \notin DOMAIN w.pools
    THEN Fail(w, "KeyError: pools[pool_id]")
    ELSE PoolUpdateDelegation(w, pool_id, new_delegation, delegator_id)

\* the same lines with the pool taken out of and put back into both rankings
SetDelegation_reranked(w, pool_id, new_delegation, delegator_id) ==
    IF ~Ok(w) THEN w
    ELSE IF pool_id \notin DOMAIN w.pools
    THEN Fail(w, "KeyError: pools[pool_id]")
    ELSE With(PoolUpdateDelegation(RankingsRemove(MyopicRemove(w, w.pools[pool_id]),
                                                  w.pools[pool_id]),
                                   pool_id, new_delegation, delegator_id),
              LAMBDA w2 : IF Ok(w2) THEN RankingsAdd(MyopicAdd(w2, w2.pools[pool_id]),
                                                     w2.pools[pool_id])
                          ELSE w2)

\* the three lines  pool_rankings_myopic.remove(pool); pool.update_delegation(...);
\* pool_rankings_myopic.add(pool)  of stakeholder.py lines 238-241, 265-268,
\* 289-294 and 296-301, after the lookup pool = pools[pool_id]
SetDelegation(w, pool_id, new_delegation, delegator_id) ==
    IF ~Ok(w) THEN w
    ELSE IF pool_id \notin DOMAIN w.pools
    THEN Fail(w, "KeyError: pools[pool_id]")
    ELSE With(PoolUpdateDelegation(MyopicRemove(w, w.pools[pool_id]),
                                   pool_id, new_delegation, delegator_id),
              LAMBDA w2 : IF Ok(w2) THEN MyopicAdd(w2, w2.pools[pool_id]) ELSE w2)

----------------------------------------------------------------------------
(* logic/stakeholder.py: the delegation move *)

\* self.rankings: the ranking the agent's profile reads (the default profile reads
\* the non-myopic pool_rankings; logic/stakeholder_profiles.py is not in src/)
rankings(w, a) == w.pr

\* lines 227-231: the pools of the ranking that are real, public and not the agent's
EligiblePoolsRanked(w, a) ==
    LET r == rankings(w, a)
        ok(e) == /\ e.id # 0
                 /\ e.id \in DOMAIN w.pools
                 /\ w.pools[e.id].owner # a
                 /\ ~w.pools[e.id].is_private
        sel == SelectSeq(r, ok)
    IN  [i \in 1 .. Len(sel) |-> sel[i].id]

\* lines 237-241: take the agent's own delegations out of the pools
RECURSIVE RetractAllocations(_, _, _)
RetractAllocations(w, a, ids) ==
    IF ids = <<>> THEN w
    ELSE RetractAllocations(SetDelegation(w, Head(ids), 0, a), a, Tail(ids))

\* lines 264-268: put them back
RECURSIVE RestoreAllocations(_, _, _)
RestoreAllocations(w, a, ids) ==
    IF ids = <<>> THEN w
    ELSE RestoreAllocations(
             SetDelegation(w, Head(ids), w.strategy[a].stake_allocations[Head(ids)], a),
             a, Tail(ids))

\* lines 243-258: the scan of the ranked list; best is 0 for None
RECURSIVE ScanEligiblePools(_, _, _, _, _)
ScanEligiblePools(w, eligible, stake_to_delegate, allocations, best) ==
    IF eligible = <<>>
    THEN [stake_to_delegate |-> stake_to_delegate, allocations |-> allocations,
          best_saturated_pool |-> best]
    ELSE LET best_pool == w.pools[Head(eligible)]
             saturation_threshold == get_pool_saturation_threshold(best_pool.pledge)
             stake_to_saturation == saturation_threshold - best_pool.stake
         IN  IF stake_to_saturation < MIN_STAKE_UNIT
             THEN ScanEligiblePools(w, Tail(eligible), stake_to_delegate, allocations,
                                    IF best = 0 THEN best_pool.id ELSE best)
             ELSE LET allocation == Min2(stake_to_delegate, stake_to_saturation)
                      rest == stake_to_delegate - allocation
                      al == MapPut(allocations, best_pool.id, allocation)
                  IN  IF rest < MIN_STAKE_UNIT
                      THEN [stake_to_delegate |-> rest, allocations |-> al,
                            best_saturated_pool |-> best]
                      ELSE ScanEligiblePools(w, Tail(eligible), rest, al, best)

\* the remainder dropped instead of going to the best saturated pool
WithSaturatedRemainder_dropped(scan) == scan.allocations

\* lines 259-261: what does not fit goes to the best saturated pool
WithSaturatedRemainder(scan) ==
    IF scan.stake_to_delegate >= MIN_STAKE_UNIT /\ scan.best_saturated_pool # 0
    THEN MapPut(scan.allocations, scan.best_saturated_pool, scan.stake_to_delegate)
    ELSE scan.allocations

\* determine_stake_allocations measuring the headroom of the pools without
\* retracting the agent's own delegations first
determine_stake_allocations_unretracted(w, a, stake_to_delegate) ==
    IF ~Ok(w) THEN [w |-> w, none |-> TRUE, allocations |-> EmptyMap]
    ELSE With(EligiblePoolsRanked(w, a), LAMBDA eligible :
         IF eligible = <<>> THEN [w |-> w, none |-> TRUE, allocations |-> EmptyMap]
         ELSE [w |-> w, none |-> FALSE,
               allocations |-> WithSaturatedRemainder(
                   ScanEligiblePools(w, eligible, stake_to_delegate, EmptyMap, 0))])

\* Stakeholder.determine_stake_allocations, lines 218-269.
\* Returns the state after the call, the allocations and whether None was returned.
determine_stake_allocations(w, a, stake_to_delegate) ==
    IF ~Ok(w) THEN [w |-> w, none |-> TRUE, allocations |-> EmptyMap]
    ELSE With(EligiblePoolsRanked(w, a), LAMBDA eligible :
         IF eligible = <<>> THEN [w |-> w, none |-> TRUE, allocations |-> EmptyMap]
         ELSE With(RetractAllocations(w, a,
                       SortedSeq(DOMAIN w.strategy[a].stake_allocations)),
              LAMBDA w1 :
              IF ~Ok(w1) THEN [w |-> w1, none |-> TRUE, allocations |-> EmptyMap]
              ELSE [w |-> RestoreAllocations(w1, a,
                              SortedSeq(DOMAIN w.strategy[a].stake_allocations)),
                    none |-> FALSE,
                    allocations |-> WithSaturatedRemainder(
                        ScanEligiblePools(w1, eligible, stake_to_delegate, EmptyMap, 0))]))

\* find_delegation_move without the test of lines 274-275
find_delegation_move_unguarded(w, a, stake_to_delegate) ==
    With(determine_stake_allocations(w, a, stake_to_delegate), LAMBDA r :
         [w |-> r.w,
          strategy |-> Strategy(IF r.none THEN EmptyMap ELSE r.allocations, EmptyMap)])

\* Stakeholder.find_delegation_move, lines 271-278 (stake_to_delegate given)
find_delegation_move(w, a, stake_to_delegate) ==
    IF stake_to_delegate < MIN_STAKE_UNIT
    THEN [w |-> w, strategy |-> EmptyStrategy]
    ELSE With(determine_stake_allocations(w, a, stake_to_delegate), LAMBDA r :
              [w |-> r.w,
               strategy |-> Strategy(IF r.none THEN EmptyMap ELSE r.allocations, EmptyMap)])

----------------------------------------------------------------------------
(* logic/stakeholder.py: the operator move *)

\* Stakeholder.cost: the cost of running one pool (hlp.generate_cost_distr_unfrm)
agent_cost(a) == 4

\* calculate_margin reading the position after k-1
calculate_margin_next_position(w, a, pool) ==
    IF pool.is_private THEN RatInt(0)
    ELSE LET reference_pool == rankings(w, a)[k + 1]
             reference_potential_profit ==
                 IF reference_pool.id # 0
                 THEN w.pools[reference_pool.id].potential_profit
                 ELSE 0
         IN  calculate_suitable_margin(pool.potential_profit, reference_potential_profit)

\* Stakeholder.calculate_margin, lines 138-150 (position k-1, counted from 0)
calculate_margin(w, a, pool) ==
    IF pool.is_private THEN RatInt(0)
    ELSE LET reference_pool == rankings(w, a)[k]
             reference_potential_profit ==
                 IF reference_pool.id # 0
                 THEN w.pools[reference_pool.id].potential_profit
                 ELSE 0
         IN  calculate_suitable_margin(pool.potential_profit, reference_potential_profit)

\* the key of determine_pools_to_keep, line 156
KeepKey(pool) ==
    <<pool.desirability, RatInt(pool.potential_profit), RatInt(pool.stake), RatInt(-pool.id)>>

\* the n oldest pools, whatever their keys
NLargest_oldest(n, ids, w) ==
    {id \in ids : Cardinality({j \in ids : j < id}) < n}

\* heapq.nlargest(n, ...), line 157: the ids of the n pools with the largest keys
RECURSIVE NLargest(_, _, _)
NLargest(n, ids, w) ==
    IF n <= 0 \/ ids = {} THEN {}
    ELSE LET m == CHOOSE x \in ids :
                     \A y \in ids \ {x} : TupleLess(KeepKey(w.pools[y]), KeepKey(w.pools[x]))
         IN  {m} \cup NLargest(n - 1, ids \ {m}, w)

\* Stakeholder.determine_pools_to_keep, lines 152-162: deep copies, by pool id
determine_pools_to_keep(w, a, num_pools_to_keep) ==
    LET owned == w.strategy[a].owned_pools
    IN  IF num_pools_to_keep < Cardinality(owned)
        THEN [id \in NLargest(num_pools_to_keep, owned, w) |-> w.pools[id]]
        ELSE [id \in owned |-> w.pools[id]]

\* find_delegation_for_operator that delegates the whole stake again
find_delegation_for_operator_whole_stake(w, a, total_pledge) ==
    IF stake[a] - total_pledge > 0
    THEN With(find_delegation_move(w, a, stake[a]), LAMBDA d :
              [w |-> d.w, allocations |-> d.strategy.stake_allocations])
    ELSE [w |-> w, allocations |-> EmptyMap]

\* Stakeholder.find_delegation_for_operator, lines 209-216
find_delegation_for_operator(w, a, total_pledge) ==
    IF stake[a] - total_pledge > 0
    THEN With(find_delegation_move(w, a, stake[a] - total_pledge), LAMBDA d :
              [w |-> d.w, allocations |-> d.strategy.stake_allocations])
    ELSE [w |-> w, allocations |-> EmptyMap]

\* ids handed out from the lowest numbers no pool of the table has
NextPoolIds_lowest_free(w, n) ==
    {i \in 1 .. (w.id_seq + n) :
        /\ i \notin DOMAIN w.pools
        /\ Cardinality({j \in 1 .. i : j \notin DOMAIN w.pools}) <= n}

\* Simulation.get_next_pool_id, sim.py lines 195-197, called n times: the ids handed out
NextPoolIds(w, n) == (w.id_seq + 1) .. (w.id_seq + n)

\* find_operator_move, lines 186-190: an existing pool is brought to the pledge
\* and cost of the new strategy
adjust_owned_pool(pool, pledge, cost_per_pool, a0) ==
    set_profit([pool EXCEPT !.stake = @ - (pool.pledge - pledge),
                            !.pledge = pledge,
                            !.is_private = pledge >= get_pool_saturation_threshold(pledge),
                            !.cost = cost_per_pool], a0)

\* Stakeholder.find_operator_move, lines 180-207.  The margins argument is the list
\* calculate_margins_and_utility (not in src/) computed with calculate_margin for
\* the same pools, so every pool gets calculate_margin(pool).
find_operator_move(w, a, num_pools, owned_pools) ==
    LET pledge == calculate_pledge_per_pool(stake[a], num_pools)
        cost_per_pool == calculate_cost_per_pool(num_pools, agent_cost(a))
        a0 == a0_of(w.phase)
        is_private == pledge >= get_pool_saturation_threshold(pledge)
        Modified(pool) ==
            LET p2 == adjust_owned_pool(pool, pledge, cost_per_pool, a0)
            IN  set_margin(p2, calculate_margin(w, a, p2))
        Created(pool_id) ==
            LET p == NewPool(pool_id, cost_per_pool, pledge, a, a0, DefaultMargin, is_private)
            IN  set_margin(p, calculate_margin(w, a, p))
        existing == DOMAIN owned_pools
        new_ids == NextPoolIds(w, num_pools - Cardinality(existing))
        owned == [id \in existing \cup new_ids |->
                     IF id \in existing THEN Modified(owned_pools[id]) ELSE Created(id)]
        w1 == [w EXCEPT !.id_seq = @ + Cardinality(new_ids)]
    IN  IF ~Ok(w) THEN [w |-> w, strategy |-> None]
        ELSE IF ~is_private /\ Len(rankings(w, a)) < k
        THEN [w |-> Fail(w, "IndexError: rankings[k-1]"), strategy |-> None]
        ELSE With(find_delegation_for_operator(w1, a, pledge * num_pools), LAMBDA d :
                  [w |-> d.w, strategy |-> Strategy(d.allocations, owned)])

\* the iteration without the comparison with t - 1 pools
SearchIteration_right_only(u, s) ==
    LET t == (s.t_min + s.t_max) \div 2
    IN  IF t < s.t_max /\ u[t + 1] > u[t]
        THEN [s EXCEPT !.t = t, !.t_min = t + 1]
        ELSE [s EXCEPT !.t = t, !.solution_found = TRUE]

\* One iteration of the loop of choose_pool_strategy, lines 113-127, on the
\* utilities u[t] that calculate_margins_and_utility returns for t pools.
SearchIteration(u, s) ==
    LET t == (s.t_min + s.t_max) \div 2
    IN  IF t > s.t_min /\ u[t - 1] > u[t]
        THEN [s EXCEPT !.t = t, !.t_max = t - 1]
        ELSE IF t < s.t_max /\ u[t + 1] > u[t]
        THEN [s EXCEPT !.t = t, !.t_min = t + 1]
        ELSE [s EXCEPT !.t = t, !.solution_found = TRUE]

\* lines 109-111
SearchStart(t_max) == [t_min |-> 1, t_max |-> t_max, t |-> 0, solution_found |-> FALSE]

RECURSIVE SearchLoop(_, _)
SearchLoop(u, s) == IF s.solution_found THEN s.t ELSE SearchLoop(u, SearchIteration(u, s))

\* the utilities the model draws from
Utilities == {-1, 0, 1}

\* the numbers of pools the search of choose_pool_strategy can end at
SearchResults == {SearchLoop(u, SearchStart(k)) : u \in [1 .. k -> Utilities]}

\* Stakeholder.choose_pool_strategy, lines 129-136, for the num_pools the loop found
choose_pool_strategy(w, a, num_pools) ==
    IF num_pools > 0
    THEN find_operator_move(w, a, num_pools, determine_pools_to_keep(w, a, num_pools))
    ELSE [w |-> w, strategy |-> None]

----------------------------------------------------------------------------
(* logic/stakeholder.py: update_strategy *)

\* Simulation.relative_utility_threshold and absolute_utility_threshold (defaults);
\* the relative threshold is counted in tenths
relative_utility_threshold == 0
absolute_utility_threshold == 0

MaxOf(S) == CHOOSE x \in S : \A y \in S : y <= x

\* lines 40-45, times 10: the value of keeping the current strategy
augmented_current_move_utility(current_utility, expected_utility, rel, abs) ==
    MaxOf({(10 + rel) * current_utility,
           10 * (current_utility + abs),
           (10 + rel) * expected_utility,
           10 * (expected_utility + abs)})

\* Python's max(dict, key=...): the first key, in insertion order, of maximal value
RECURSIVE FirstMax(_, _)
FirstMax(best, rest) ==
    IF rest = <<>> THEN best
    ELSE FirstMax(IF Head(rest)[2] > best[2] THEN Head(rest) ELSE best, Tail(rest))

\* max with the last key of maximal value instead
RECURSIVE LastMax(_, _)
LastMax(best, rest) ==
    IF rest = <<>> THEN best
    ELSE LastMax(IF Head(rest)[2] >= best[2] THEN Head(rest) ELSE best, Tail(rest))

max_utility_option_last(current_utility, expected_utility, delegator_utility, operator_utility, has_operator, rel, abs) ==
    LET moves == <<
            <<"current", augmented_current_move_utility(current_utility,
                                                        expected_utility, rel, abs)>>,
            <<"delegator", 10 * delegator_utility>> >>
            \o (IF has_operator THEN << <<"operator", 10 * operator_utility>> >> ELSE <<>>)
    IN  LastMax(Head(moves), Tail(moves))[1]

\* lines 47-61: possible_moves in the order current, delegator, operator, and the
\* option of greatest utility
max_utility_option(current_utility, expected_utility, delegator_utility, operator_utility, has_operator, rel, abs) ==
    LET moves == <<
            <<"current", augmented_current_move_utility(current_utility,
                                                        expected_utility, rel, abs)>>,
            <<"delegator", 10 * delegator_utility>> >>
            \o (IF has_operator THEN << <<"operator", 10 * operator_utility>> >> ELSE <<>>)
    IN  FirstMax(Head(moves), Tail(moves))[1]

\* The utility calculators (hlp.calculate_operator_utility_from_pool and the
\* delegator utility) belong to the reward scheme: their values are inputs.  A
\* strategy without pools and allocations has utility 0 (lines 70-95).
UtilitiesOf(strat) ==
    IF strat.owned_pools = {} /\ DOMAIN strat.stake_allocations = {}
    THEN {0} ELSE Utilities

CandidateUtilitiesOf(strat) ==
    IF DOMAIN strat.owned_pools = {} /\ DOMAIN strat.stake_allocations = {}
    THEN {0} ELSE Utilities

\* calculate_current_utility, lines 78-79: pools[pool_id] for every allocation
CurrentUtilityLookupFails(w, a) ==
    \E pool_id \in DOMAIN w.strategy[a].stake_allocations : pool_id \notin DOMAIN w.pools

\* Stakeholder.update_strategy, lines 37-62, up to the choice: the two candidate
\* moves, for the number of pools the search ends at
CandidateMoves(w, a, num_pools) ==
    IF CurrentUtilityLookupFails(w, a)
    THEN [w |-> Fail(w, "KeyError: pools[pool_id] in calculate_current_utility"),
          delegator |-> None, operator |-> None]
    ELSE With(find_delegation_move(w, a, stake[a]), LAMBDA d :
         IF ~Ok(d.w) THEN [w |-> d.w, delegator |-> None, operator |-> None]
         ELSE With(choose_pool_strategy(d.w, a, num_pools), LAMBDA o :
                   [w |-> o.w, delegator |-> d.strategy, operator |-> o.strategy]))

\* the options update_strategy can select in this state
Options(w, a, c) ==
    {max_utility_option(cu, eu, du, ou, c.operator.some,
                        relative_utility_threshold, absolute_utility_threshold) :
        cu \in UtilitiesOf(w.strategy[a]), eu \in UtilitiesOf(w.strategy[a]),
        du \in CandidateUtilitiesOf(c.delegator), ou \in Utilities}

\* line 62
update_strategy(w, a, c, option) ==
    IF ~Ok(c.w) THEN c.w
    ELSE [c.w EXCEPT !.new_strategy[a] =
             IF option = "current" THEN None
             ELSE IF option = "delegator" THEN c.delegator
             ELSE c.operator]

----------------------------------------------------------------------------
(* logic/stakeholder.py: execute_strategy *)

Simultaneous(w) == w.order \in {"simultaneous", "semisimultaneous"}

\* lines 350-355: every delegator of the pool forgets it and is undelegated.
\* s is [w, pool]: the pool is a copy the caller holds (the closed pool, or the
\* updated pool of the candidate strategy).
RECURSIVE UndelegateAll(_, _)
UndelegateAll(s, delegators) ==
    IF delegators = <<>> \/ ~Ok(s.w) THEN s
    ELSE LET agent_id == Head(delegators)
         IN  IF s.pool.id \notin DOMAIN s.w.strategy[agent_id].stake_allocations
             THEN [s EXCEPT !.w = Fail(s.w, "KeyError: stake_allocations.pop(pool.id)")]
             ELSE UndelegateAll(
                      [w |-> [s.w EXCEPT !.strategy[agent_id].stake_allocations =
                                             MapRemove(@, s.pool.id)],
                       pool |-> update_delegation(s.pool, 0, agent_id)],
                      Tail(delegators))

\* lines 357-361: the pool leaves the pending moves of all agents
ScrubPending(w, pool_id) ==
    [w EXCEPT !.new_strategy =
        [a \in DOMAIN w.new_strategy |->
            IF w.new_strategy[a].some
            THEN [w.new_strategy[a] EXCEPT !.stake_allocations = MapRemove(@, pool_id)]
            ELSE w.new_strategy[a]]]

\* Stakeholder.remove_delegations, lines 349-361
remove_delegations(w, pool) ==
    With(UndelegateAll([w |-> w, pool |-> pool], SortedSeq(DOMAIN pool.delegators)),
         LAMBDA s : IF Ok(s.w) /\ Simultaneous(s.w)
                    THEN [s EXCEPT !.w = ScrubPending(s.w, pool.id)]
                    ELSE s)

\* Stakeholder.close_pool, lines 339-347
close_pool(w, a, pool_id) ==
    IF ~Ok(w) THEN w
    ELSE IF pool_id \notin DOMAIN w.pools THEN Fail(w, "KeyError: pools[pool_id] in close_pool")
    ELSE With(MyopicRemove(RankingsRemove(w, w.pools[pool_id]), w.pools[pool_id]),
         LAMBDA w1 :
         IF ~Ok(w1) THEN w1
         ELSE With(remove_delegations(
                       IF w.pools[pool_id].delegators = EmptyMap THEN w1
                       ELSE Mutating(w1, pool_id, {"stake"}),
                       w.pools[pool_id]), LAMBDA s :
              IF ~Ok(s.w) THEN s.w
              ELSE [s.w EXCEPT
                       !.pools = MapRemove(@, pool_id),
                       !.same_object = [b \in Agents |-> @[b] \ {pool_id}],
                       !.log = @ \cup {<<"pools">>, <<"pool", pool_id>>},
                       !.closed = @ \cup {<<pool_id, DOMAIN w.pools[pool_id].delegators>>},
                       !.ops = Append(@, <<"close_pool", pool_id>>)]))

\* update_pool that puts a further copy of the candidate pool into the table
update_pool_stores_copy(w, a, pool_id) ==
    IF ~Ok(w) THEN w
    ELSE With(IF w.new_strategy[a].owned_pools[pool_id].is_private
                 /\ w.new_strategy[a].owned_pools[pool_id].stake
                        > w.new_strategy[a].owned_pools[pool_id].pledge
              THEN remove_delegations(w, w.new_strategy[a].owned_pools[pool_id])
              ELSE [w |-> w, pool |-> w.new_strategy[a].owned_pools[pool_id]],
         LAMBDA s :
         IF ~Ok(s.w) THEN s.w
         ELSE With([s.w EXCEPT !.pools[pool_id] = s.pool,
                               !.new_strategy[a].owned_pools[pool_id] = s.pool,
                               !.same_object = [b \in Agents |-> @[b] \ {pool_id}],
                               !.log = @ \cup {<<"pools">>, <<"pool", pool_id>>},
                               !.ops = Append(@, <<"update_pool", pool_id>>)],
              LAMBDA w1 :
              MyopicAdd(MyopicRemove(RankingsAdd(RankingsRemove(w1, w.pools[pool_id]),
                                                 s.pool),
                                     w.pools[pool_id]),
                        s.pool)))

\* Stakeholder.update_pool, lines 318-330
update_pool(w, a, pool_id) ==
    IF ~Ok(w) THEN w
    ELSE With(IF w.new_strategy[a].owned_pools[pool_id].is_private
                 /\ w.new_strategy[a].owned_pools[pool_id].stake
                        > w.new_strategy[a].owned_pools[pool_id].pledge
              THEN remove_delegations(w, w.new_strategy[a].owned_pools[pool_id])
              ELSE [w |-> w, pool |-> w.new_strategy[a].owned_pools[pool_id]],
         LAMBDA s :
         IF ~Ok(s.w) THEN s.w
         ELSE With([s.w EXCEPT !.pools[pool_id] = s.pool,
                               !.new_strategy[a].owned_pools[pool_id] = s.pool,
                               !.same_object = [b \in Agents |-> @[b] \ {pool_id}],
                               !.staged[a] = @ \cup {pool_id},
                               !.log = @ \cup {<<"pools">>, <<"pool", pool_id>>},
                               !.ops = Append(@, <<"update_pool", pool_id>>)],
              LAMBDA w1 :
              MyopicAdd(MyopicRemove(RankingsAdd(RankingsRemove(w1, w.pools[pool_id]),
                                                 s.pool),
                                     w.pools[pool_id]),
                        s.pool)))

\* open_pool that leaves the new pool out of the myopic ranking
open_pool_without_myopic(w, a, pool) ==
    IF ~Ok(w) THEN w
    ELSE RankingsAdd([w EXCEPT !.pools = MapPut(@, pool.id, pool),
                       !.same_object[a] = @ \cup {pool.id},
                               !.log = @ \cup {<<"pools">>, <<"pool", pool.id>>},
                               !.ops = Append(@, <<"open_pool", pool.id>>)], pool)

\* Stakeholder.open_pool, lines 332-337 (the candidate pool becomes the table's)
open_pool(w, a, pool) ==
    IF ~Ok(w) THEN w
    ELSE MyopicAdd(RankingsAdd(
             [w EXCEPT !.pools = MapPut(@, pool.id, pool),
                       !.same_object[a] = @ \cup {pool.id},
                       !.log = @ \cup {<<"pools">>, <<"pool", pool.id>>},
                       !.ops = Append(@, <<"open_pool", pool.id>>)], pool), pool)

RECURSIVE RemoveOldDelegations(_, _, _)
RemoveOldDelegations(w, a, ids) ==
    IF ids = <<>> THEN w
    ELSE RemoveOldDelegations(SetDelegation(w, Head(ids), 0, a), a, Tail(ids))

RECURSIVE ApplyNewDelegations(_, _, _, _)
ApplyNewDelegations(w, a, new_allocations, ids) ==
    IF ids = <<>> THEN w
    ELSE ApplyNewDelegations(SetDelegation(w, Head(ids), new_allocations[Head(ids)], a),
                             a, new_allocations, Tail(ids))

RECURSIVE ClosePools(_, _, _)
ClosePools(w, a, ids) ==
    IF ids = <<>> THEN w ELSE ClosePools(close_pool(w, a, Head(ids)), a, Tail(ids))

RECURSIVE UpdatePools(_, _, _)
UpdatePools(w, a, ids) ==
    IF ids = <<>> THEN w ELSE UpdatePools(update_pool(w, a, Head(ids)), a, Tail(ids))

RECURSIVE OpenPools(_, _, _, _)
OpenPools(w, a, candidates, ids) ==
    IF ids = <<>> THEN w
    ELSE OpenPools(open_pool(w, a, candidates[Head(ids)]), a, candidates, Tail(ids))

\* the candidate's allocations merged into the ones of the strategy
CommitStrategy_merged(w, a) ==
    IF ~Ok(w) THEN w
    ELSE [w EXCEPT !.strategy[a] =
                       [stake_allocations |-> w.new_strategy[a].stake_allocations
                                                  @@ w.strategy[a].stake_allocations,
                        owned_pools |-> DOMAIN w.new_strategy[a].owned_pools],
                   !.same_object[a] = w.staged[a],
                   !.staged[a] = {},
                   !.new_strategy[a] = None]

\* lines 313-314: the candidate replaces the strategy as a whole
CommitStrategy(w, a) ==
    IF ~Ok(w) THEN w
    ELSE [w EXCEPT !.strategy[a] =
                       [stake_allocations |-> w.new_strategy[a].stake_allocations,
                        owned_pools |-> DOMAIN w.new_strategy[a].owned_pools],
                   !.same_object[a] = w.staged[a],
                   !.staged[a] = {},
                   !.new_strategy[a] = None]

\* Stakeholder.execute_strategy, lines 280-316
execute_strategy(w, a) ==
    LET old_allocations == DOMAIN w.strategy[a].stake_allocations
        new_allocations == DOMAIN w.new_strategy[a].stake_allocations
        old_owned_pools == w.strategy[a].owned_pools
        new_owned_pools == DOMAIN w.new_strategy[a].owned_pools
    IN  With(UpdatePools(
                 ClosePools(
                     ApplyNewDelegations(
                         RemoveOldDelegations([w EXCEPT !.executed = @ \cup {a},
                                                       !.pending = w.new_strategy[a]], a,
                             SortedSeq(old_allocations \ new_allocations)),
                         a, w.new_strategy[a].stake_allocations,
                         SortedSeq(new_allocations)),
                     a, SortedSeq(old_owned_pools \ new_owned_pools)),
                 a, SortedSeq(new_owned_pools \cap old_owned_pools)),
             LAMBDA w4 :
             OpenPools(CommitStrategy(w4, a), a, w4.new_strategy[a].owned_pools,
                       SortedSeq(new_owned_pools \ old_owned_pools)))

----------------------------------------------------------------------------
(* logic/sim.py: the coordinator *)

\* Simulation.max_iterations and iterations_after_convergence
max_iterations == 3
iterations_after_convergence == 2

\* Simulation.has_converged, lines 241-246
has_converged(idle_steps) == idle_steps >= iterations_after_convergence

RECURSIVE RemoveFromRankings(_, _)
RemoveFromRankings(w, ids) ==
    IF ids = <<>> THEN w
    ELSE RemoveFromRankings(
             MyopicRemove(RankingsRemove(w, w.pools[Head(ids)]), w.pools[Head(ids)]),
             Tail(ids))

RECURSIVE RecomputeAndAdd(_, _)
RecomputeAndAdd(w, ids) ==
    IF ids = <<>> \/ ~Ok(w) THEN w
    ELSE LET pool == set_desirability(set_profit(w.pools[Head(ids)], a0_of(w.phase)))
             w1 == [Mutating(w, Head(ids), {"potential_profit", "desirability"})
                        EXCEPT !.pools[Head(ids)] = pool,
                               !.log = @ \cup {<<"pool", Head(ids)>>}]
         IN  RecomputeAndAdd(MyopicAdd(RankingsAdd(w1, pool), pool), Tail(ids))

\* change_phase with the parameters of the new phase set before the pools leave
\* the rankings
change_phase_parameters_first(w) ==
    With(RemoveFromRankings([w EXCEPT !.phase = @ + 1], SortedSeq(DOMAIN w.pools)),
         LAMBDA w1 : IF ~Ok(w1) THEN w1
                     ELSE RecomputeAndAdd(w1, SortedSeq(DOMAIN w.pools)))

\* Simulation.change_phase, lines 394-413: the pools leave the rankings under the
\* old parameters, the parameters of the new phase are set, and every pool is
\* recomputed and added again
change_phase(w) ==
    With(RemoveFromRankings(w, SortedSeq(DOMAIN w.pools)), LAMBDA w1 :
         IF ~Ok(w1) THEN w1
         ELSE RecomputeAndAdd([w1 EXCEPT !.phase = @ + 1], SortedSeq(DOMAIN w.pools)))

----------------------------------------------------------------------------
(* The state machine *)

\* the activation orders of sim.py lines 98-104 that mesa provides
ActivationOrders == {"sequential", "random", "simultaneous"}

\* the relative stakes hlp.generate_stake_distr_* hands to the agents: small
\* stakeholders of one MIN_STAKE_UNIT and one large stakeholder holding the rest
\* of the total stake (k pools at saturation)
initial_stake(a) ==
    IF a < NumAgents - 1 THEN MIN_STAKE_UNIT
    ELSE k * global_saturation_threshold - MIN_STAKE_UNIT * (NumAgents - 1)

\* the large stakeholder is the last agent or the first one
StakeDistributions ==
    {[a \in Agents |-> initial_stake(a)],
     [a \in Agents |-> initial_stake(NumAgents - 1 - a)]}

\* the shared state as the handlers see it
World ==
    [pools |-> pools, pr |-> pool_rankings, prm |-> pool_rankings_myopic,
     strategy |-> strategy, new_strategy |-> new_strategy, id_seq |-> id_seq,
     phase |-> current_phase, order |-> agent_activation_order,
     idle |-> current_step_idle, err |-> err, log |-> {}, executed |-> {},
     closed |-> {}, ops |-> <<>>, pending |-> None, unsorted |-> {},
     same_object |-> trace.same_object, staged |-> [a \in Agents |-> {}]]

Store(w) ==
    /\ pools' = w.pools
    /\ pool_rankings' = w.pr
    /\ pool_rankings_myopic' = w.prm
    /\ strategy' = w.strategy
    /\ new_strategy' = w.new_strategy
    /\ id_seq' = w.id_seq
    /\ current_phase' = w.phase
    /\ current_step_idle' = w.idle
    /\ err' = w.err

\* What the properties observe of the last handler: its name and agent, whether
\* it entered execute_strategy, what update_strategy wrote, the pools it closed,
\* how Simulation.step ended; and of the run: whether any agent executed a
\* strategy in the current round and how many idle rounds came in a row.
NoTrace == [handler |-> "none", agent |-> 0, executed |-> FALSE, decision_log |-> {},
            closed |-> {}, ops |-> <<>>, pending |-> None, unsorted |-> {},
            ever |-> {}, same_object |-> [a \in Agents |-> {}], outcome |-> "none",
            round_executed |-> FALSE,
            idle_in_phase |-> 0, phase_changed |-> FALSE, wrap_ups |-> 0,
            idle_rounds |-> 0]

InitSim ==
    /\ agent_activation_order \in ActivationOrders
    /\ stake \in StakeDistributions
    /\ strategy = [a \in Agents |-> [stake_allocations |-> EmptyMap, owned_pools |-> {}]]
    /\ new_strategy = [a \in Agents |-> None]
    /\ pools = EmptyMap
    /\ pool_rankings = InitialRanking
    /\ pool_rankings_myopic = InitialRanking
    /\ id_seq = 0
    /\ steps = 0
    /\ current_phase = 0
    /\ consecutive_idle_steps = 0
    /\ current_step_idle = TRUE
    /\ running = TRUE
    /\ pc = "run_model"
    /\ stepped = {}
    /\ advanced = {}
    /\ err = "none"
    /\ trace = NoTrace

Init == InitSim /\ probe = [kind |-> "none"]

\* Stakeholder.advance with the flag never cleared
advance_keeps_idle(w, a) ==
    IF Ok(w) /\ w.new_strategy[a].some THEN execute_strategy(w, a) ELSE w

\* Stakeholder.advance, lines 31-35
advance(w, a) ==
    IF Ok(w) /\ w.new_strategy[a].some
    THEN With(execute_strategy(w, a),
              LAMBDA w1 : IF Ok(w1) THEN [w1 EXCEPT !.idle = FALSE] ELSE w1)
    ELSE w

\* Stakeholder.step that advances whatever the activation order
step_always_advances(w, a) == advance(w, a)

\* Stakeholder.step after update_strategy, lines 25-29
step_after_update(w, a) == IF ~Simultaneous(w) THEN advance(w, a) ELSE w

\* the agent the scheduler activates next: in insertion order (BaseScheduler,
\* SimultaneousActivation) or in a freshly shuffled order (RandomActivation)
NextInOrder(a, done) ==
    /\ a \in Agents \ done
    /\ agent_activation_order # "random" => \A b \in Agents \ done : a <= b

Active == pc = "schedule.step" /\ err = "none"

\* Simulation.step, lines 206-212, entered from the loop of run_model (line 238)
BeginStep ==
    /\ pc = "run_model" /\ err = "none"
    /\ running /\ steps <= max_iterations
    /\ IF steps >= max_iterations
       THEN /\ running' = FALSE
            /\ pc' = "run_model"
            /\ trace' = [NoTrace EXCEPT !.handler = "Simulation.step",
                                        !.outcome = "max_iterations",
                                        !.wrap_ups = trace.wrap_ups + 1,
                                        !.ever = trace.ever,
                                        !.same_object = trace.same_object,
                                        !.idle_in_phase = trace.idle_in_phase,
                                        !.phase_changed = trace.phase_changed,
                                        !.idle_rounds = trace.idle_rounds]
       ELSE /\ running' = TRUE
            /\ pc' = "schedule.step"
            /\ trace' = [NoTrace EXCEPT !.handler = "Simulation.step",
                                        !.outcome = "schedule.step",
                                        !.wrap_ups = trace.wrap_ups,
                                        !.ever = trace.ever,
                                        !.same_object = trace.same_object,
                                        !.idle_in_phase = trace.idle_in_phase,
                                        !.phase_changed = trace.phase_changed,
                                        !.idle_rounds = trace.idle_rounds]
    /\ stepped' = {} /\ advanced' = {}
    /\ UNCHANGED <<agent_activation_order, stake, strategy, new_strategy, pools,
                   pool_rankings, pool_rankings_myopic, id_seq, steps, current_phase,
                   consecutive_idle_steps, current_step_idle, err, probe>>

\* Stakeholder.step, lines 23-29
AgentStep(a) ==
    /\ Active /\ NextInOrder(a, stepped)
    /\ \E num_pools \in SearchResults :
       \E c \in {CandidateMoves(World, a, num_pools)} :
         /\ c.w.id_seq <= MaxPoolId
         /\ \E option \in Options(World, a, c) :
            \E w1 \in {update_strategy(World, a, c, option)} :
            \E w2 \in {step_after_update(w1, a)} :
              /\ Store(w2)
              /\ trace' = [NoTrace EXCEPT
                     !.handler = "Stakeholder.step", !.agent = a,
                     !.decision_log = w1.log,
                     !.executed = a \in w2.executed,
                     !.closed = w2.closed,
                     !.ops = w2.ops, !.pending = w2.pending,
                     !.unsorted = w2.unsorted,
                     !.round_executed = trace.round_executed \/ a \in w2.executed,
                     !.ever = trace.ever \cup DOMAIN w2.pools,
                     !.same_object = w2.same_object,
                     !.wrap_ups = trace.wrap_ups,
                     !.idle_in_phase = trace.idle_in_phase,
                     !.phase_changed = trace.phase_changed,
                     !.idle_rounds = trace.idle_rounds]
    /\ stepped' = stepped \cup {a}
    /\ UNCHANGED <<agent_activation_order, stake, steps, consecutive_idle_steps,
                   running, pc, advanced, probe>>

\* Stakeholder.advance called by SimultaneousActivation.step after every step()
AgentAdvance(a) ==
    /\ Active /\ agent_activation_order = "simultaneous"
    /\ stepped = Agents /\ NextInOrder(a, advanced)
    /\ \E w1 \in {advance(World, a)} :
         /\ Store(w1)
         /\ trace' = [NoTrace EXCEPT
                !.handler = "Stakeholder.advance", !.agent = a,
                !.executed = a \in w1.executed,
                !.closed = w1.closed,
                !.ops = w1.ops, !.pending = w1.pending,
                !.unsorted = w1.unsorted,
                !.round_executed = trace.round_executed \/ a \in w1.executed,
                !.ever = trace.ever \cup DOMAIN w1.pools,
                !.same_object = w1.same_object,
                !.wrap_ups = trace.wrap_ups,
                !.idle_in_phase = trace.idle_in_phase,
                !.phase_changed = trace.phase_changed,
                !.idle_rounds = trace.idle_rounds]
    /\ advanced' = advanced \cup {a}
    /\ UNCHANGED <<agent_activation_order, stake, steps, consecutive_idle_steps,
                   running, pc, stepped, probe>>

RoundDone ==
    /\ stepped = Agents
    /\ agent_activation_order = "simultaneous" => advanced = Agents

\* Simulation.step, lines 217-229, once schedule.step() has returned
EndStep ==
    /\ Active /\ RoundDone
    /\ steps' = steps + 1
    /\ LET idle_steps == IF current_step_idle THEN consecutive_idle_steps + 1 ELSE 0
           converged == current_step_idle /\ has_converged(idle_steps)
           next_phase == converged /\ current_phase < total_phases - 1
           wrap_up == converged /\ ~next_phase
       IN  /\ consecutive_idle_steps' = idle_steps
           /\ running' = ~wrap_up
           /\ \E w1 \in {IF next_phase THEN change_phase(World) ELSE World} :
                /\ Store([w1 EXCEPT !.idle = IF wrap_up THEN w1.idle ELSE TRUE])
                /\ trace' = [NoTrace EXCEPT
                       !.handler = "Simulation.step",
                       !.outcome = IF next_phase THEN "change_phase"
                                   ELSE IF wrap_up THEN "wrap_up_execution"
                                   ELSE "continue",
                       !.unsorted = w1.unsorted,
                       !.round_executed = trace.round_executed,
                       !.ever = trace.ever \cup DOMAIN w1.pools,
                       !.same_object = w1.same_object,
                       !.idle_in_phase =
                           IF trace.round_executed THEN 0
                           ELSE IF trace.phase_changed THEN 1
                           ELSE trace.idle_in_phase + 1,
                       !.phase_changed = next_phase,
                       !.wrap_ups = IF wrap_up THEN trace.wrap_ups + 1 ELSE trace.wrap_ups,
                       !.idle_rounds = IF trace.round_executed THEN 0
                                       ELSE trace.idle_rounds + 1]
    /\ pc' = "run_model"
    /\ stepped' = {} /\ advanced' = {}
    /\ UNCHANGED <<agent_activation_order, stake, probe>>

Next ==
    \/ BeginStep
    \/ \E a \in Agents : AgentStep(a)
    \/ \E a \in Agents : AgentAdvance(a)
    \/ EndStep

Spec == Init /\ [][Next]_vars

----------------------------------------------------------------------------
(* One Pool under the operations that change it (logic/pool.py and the      *)
(* callers of logic/stakeholder.py), from any pledge an operator can choose *)

\* the pledges determine_pledge_per_pool can return
Pledges ==
    {calculate_pledge_per_pool(agent_stake, num_pools) :
        agent_stake \in k .. MaxStake, num_pools \in 1 .. k}

InitPool ==
    /\ InitSim
    /\ \E pledge \in Pledges :
         probe = [kind |-> "pool",
                  pool |-> NewPool(1, agent_cost(0), pledge, 0, a0_of(0), DefaultMargin,
                                   pledge >= get_pool_saturation_threshold(pledge)),
                  op |-> "Pool", new_delegation |-> 0, delegator_id |-> 0,
                  was_delegator |-> FALSE]

\* pool.update_delegation(new_delegation, delegator_id)
PoolUpdateDelegationCall ==
    /\ probe.kind = "pool"
    /\ UNCHANGED simvars
    /\ \E delegator_id \in Agents, new_delegation \in 0 .. MaxAmount :
        LET pool == update_delegation(probe.pool, new_delegation, delegator_id)
        IN  /\ pool.stake <= MaxStake
            /\ probe' = [probe EXCEPT
                             !.pool = pool, !.op = "update_delegation",
                             !.new_delegation = new_delegation,
                             !.delegator_id = delegator_id,
                             !.was_delegator =
                                 delegator_id \in DOMAIN probe.pool.delegators]

\* the pledge re-assignment of find_operator_move
PoolPledgeReassignment ==
    /\ probe.kind = "pool"
    /\ UNCHANGED simvars
    /\ \E pledge \in Pledges :
        LET pool == adjust_owned_pool(probe.pool, pledge, probe.pool.cost, a0_of(0))
        IN  /\ pool.stake <= MaxStake
            /\ probe' = [probe EXCEPT !.pool = pool, !.op = "find_operator_move"]

\* remove_delegations(pool), every delegator holding the pool in its allocations
PoolForcedUndelegation ==
    /\ probe.kind = "pool"
    /\ UNCHANGED simvars
    /\ LET pool == probe.pool
           w == [World EXCEPT !.strategy =
                    [a \in Agents |->
                        [stake_allocations |->
                             IF a \in DOMAIN pool.delegators
                             THEN MapPut(EmptyMap, pool.id, pool.delegators[a])
                             ELSE EmptyMap,
                         owned_pools |-> {}]]]
       IN  probe' = [probe EXCEPT !.pool = remove_delegations(w, pool).pool,
                                  !.op = "remove_delegations"]

NextPool ==
    \/ PoolUpdateDelegationCall
    \/ PoolPledgeReassignment
    \/ PoolForcedUndelegation

SpecPool == InitPool /\ [][NextPool]_vars

\* C1: every Pool satisfies stake = pledge + sum(delegators.values()) after every
\* operation that changes it: update_delegation with any non-negative amount
\* (amounts below MIN_STAKE_UNIT included), the pledge re-assignment of
\* find_operator_move and the forced undelegation of remove_delegations.
C1_StakeIsPledgePlusDelegations ==
    probe.kind = "pool" =>
        probe.pool.stake = probe.pool.pledge + SumMap(probe.pool.delegators)

----------------------------------------------------------------------------
(* The rankings against the pool table *)

\* the key a fresh sort gives the element of a ranking entry
CurrentKey(e) == IF e.id = 0 THEN NoneKey ELSE pool_comparison_key(pools[e.id])

CurrentKeyMyopic(e) ==
    IF e.id = 0 THEN NoneKey
    ELSE pool_comparison_key_myopic(pools[e.id], a0_of(current_phase))

\* the ranking holds, besides None, exactly the pools of the table, once each
HoldsExactlyThePools(list) ==
    /\ \A i \in 1 .. Len(list) : list[i].id # 0 => list[i].id \in DOMAIN pools
    /\ \A id \in DOMAIN pools :
           Cardinality({i \in 1 .. Len(list) : list[i].id = id}) = 1

\* the order of the ranking is the one a fresh sort by the key gives
FreshlySorted(list, Key(_)) ==
    /\ \A i \in 1 .. Len(list) : list[i].id # 0 => list[i].key = Key(list[i])
    /\ \A i, j \in 1 .. Len(list) : i < j => ~TupleLess(Key(list[j]), Key(list[i]))

\* C2: between agent turns each of the two rankings holds, besides its None
\* sentinels, exactly the pools of the pool table, each once, in the order of a
\* fresh sort by the ranking's key.
C2_RankingsMirrorPoolTable ==
    err = "none" =>
        /\ HoldsExactlyThePools(pool_rankings)
        /\ HoldsExactlyThePools(pool_rankings_myopic)
        /\ FreshlySorted(pool_rankings, CurrentKey)
        /\ FreshlySorted(pool_rankings_myopic, CurrentKeyMyopic)

\* two pools, one of them delegated to, ranked again by change_phase
C2_Witness ==
    /\ err = "none"
    /\ trace.outcome = "change_phase"
    /\ Cardinality(DOMAIN pools) >= 2
    /\ \E id \in DOMAIN pools : DOMAIN pools[id].delegators # {}

----------------------------------------------------------------------------
(* Decisions and commits of a round *)

\* C3: under simultaneous activation every agent's update_strategy of the round
\* has completed before any execute_strategy starts: step() only stages
\* new_strategy, and execute_strategy runs only from advance(), after all step()
\* calls of the round.
C3_DecisionsBeforeCommits ==
    agent_activation_order = "simultaneous" /\ trace.executed =>
        /\ trace.handler = "Stakeholder.advance"
        /\ stepped = Agents

\* the first agent commits its staged strategy while another one is still staged
C3_Witness ==
    /\ agent_activation_order = "simultaneous"
    /\ trace.handler = "Stakeholder.advance" /\ trace.executed
    /\ \E a \in Agents \ advanced : new_strategy[a].some

\* the missing-key failures: a pool id absent from the pool table or from a
\* delegator's stake_allocations
KeyErrors ==
    {"KeyError: pools[pool_id]",
     "KeyError: pools[pool_id] in calculate_current_utility",
     "KeyError: pools[pool_id] in close_pool",
     "KeyError: stake_allocations.pop(pool.id)"}

\* C4: under any activation order no commit references a missing pool:
\* execute_strategy, update_pool, close_pool and calculate_current_utility never
\* look up a pool id absent from the pool table, and remove_delegations never pops
\* a pool id absent from a delegator's stake_allocations.
C4_NoMissingKeyFailure == err \notin KeyErrors

----------------------------------------------------------------------------
(* close_pool *)

InRanking(list, pool_id) == \E i \in 1 .. Len(list) : list[i].id = pool_id

\* the agents that delegated to the pool and did not take the delegation back:
\* their current strategy allocates stake to it
Delegating(pool_id) ==
    {b \in Agents : pool_id \in DOMAIN strategy[b].stake_allocations}

\* C5: after close_pool(p) has returned, no former delegator's current
\* stake_allocations contains p, p is absent from both rankings and from the pool
\* table, and under (semi)simultaneous activation no agent's pending
\* new_strategy.stake_allocations contains p.
C5_ClosedPoolIsForgotten ==
    \A c \in trace.closed :
        /\ Delegating(c[1]) = {}
        /\ c[1] \notin DOMAIN pools
        /\ ~InRanking(pool_rankings, c[1])
        /\ ~InRanking(pool_rankings_myopic, c[1])
        /\ agent_activation_order = "simultaneous" =>
               \A b \in Agents : c[1] \notin DOMAIN new_strategy[b].stake_allocations

----------------------------------------------------------------------------
(* The choice of update_strategy for given utilities and thresholds (the     *)
(* relative threshold in tenths)                                            *)

\* the two candidate strategies the choice is between
DelegatorCandidate == Strategy(MapPut(EmptyMap, 1, MIN_STAKE_UNIT), EmptyMap)

OperatorCandidate ==
    Strategy(EmptyMap,
             MapPut(EmptyMap, 2,
                    NewPool(2, agent_cost(0), MIN_STAKE_UNIT, 0, a0_of(0), RatInt(0), FALSE)))

InitDecide ==
    /\ InitSim
    /\ probe \in [kind : {"decide"},
                  current_utility : Utilities, expected_utility : Utilities,
                  delegator_utility : Utilities, operator_utility : Utilities,
                  has_operator : BOOLEAN,
                  rel : 0 .. MaxThreshold, abs : 0 .. MaxThreshold,
                  option : {"undecided"}, new_strategy : {None}]

\* update_strategy, lines 40-62, on the utilities of the probe
DecideCall ==
    /\ probe.kind = "decide" /\ probe.option = "undecided"
    /\ \E option \in {max_utility_option(probe.current_utility, probe.expected_utility,
                                          probe.delegator_utility, probe.operator_utility,
                                          probe.has_operator, probe.rel, probe.abs)} :
         probe' = [probe EXCEPT
                      !.option = option,
                      !.new_strategy =
                          update_strategy(World, 0,
                              [w |-> World, delegator |-> DelegatorCandidate,
                               operator |-> IF probe.has_operator
                                            THEN OperatorCandidate ELSE None],
                              option).new_strategy[0]]
    /\ UNCHANGED simvars

NextDecide == DecideCall

SpecDecide == InitDecide /\ [][NextDecide]_vars

\* the value of keep-current: the greatest of the four threshold-augmented
\* utilities, times 10
KeepCurrentValue ==
    LET values == {(10 + probe.rel) * probe.current_utility,
                   10 * (probe.current_utility + probe.abs),
                   (10 + probe.rel) * probe.expected_utility,
                   10 * (probe.expected_utility + probe.abs)}
    IN  CHOOSE v \in values : \A x \in values : x <= v

\* C6: update_strategy selects, among keep-current (valued at the maximum of the
\* four threshold-augmented utilities), the delegation move and the operator
\* move, the option of greatest utility; on equal utility keep-current goes
\* before delegate and delegate before operate; new_strategy is None if and only
\* if keep-current is selected, otherwise it is the selected candidate.
C6_GreatestUtilityWinsInOrder ==
    probe.kind = "decide" /\ probe.option # "undecided" =>
        LET keep == KeepCurrentValue
            delegate == 10 * probe.delegator_utility
            operate == 10 * probe.operator_utility
        IN  /\ probe.option = "current" <=>
                   keep >= delegate /\ (probe.has_operator => keep >= operate)
            /\ probe.option = "delegator" <=>
                   delegate > keep /\ (probe.has_operator => delegate >= operate)
            /\ probe.option = "operator" <=>
                   probe.has_operator /\ operate > keep /\ operate > delegate
            /\ probe.new_strategy = None <=> probe.option = "current"
            /\ probe.option = "delegator" => probe.new_strategy = DelegatorCandidate
            /\ probe.option = "operator" => probe.new_strategy = OperatorCandidate

\* the delegation move and the operator move tie above keep-current
C6_Witness ==
    /\ probe.kind = "decide" /\ probe.option = "delegator"
    /\ probe.has_operator /\ probe.delegator_utility = probe.operator_utility
    /\ probe.rel > 0 /\ probe.new_strategy = DelegatorCandidate

----------------------------------------------------------------------------
(* update_strategy called twice in a row by the agent the scheduler activates *)

\* Stakeholder.step, lines 23-29, with update_strategy called a second time
\* before line 25; the utilities, and so the number of pools and the option, are
\* the same in both calls
AgentStepTwice(a) ==
    /\ Active /\ NextInOrder(a, stepped)
    /\ \E num_pools \in SearchResults :
       \E c1 \in {CandidateMoves(World, a, num_pools)} :
       \E option \in Options(World, a, c1) :
       \E w1 \in {update_strategy(World, a, c1, option)} :
       \E c2 \in {CandidateMoves(w1, a, num_pools)} :
         /\ c2.w.id_seq <= MaxPoolId
         /\ \E w2 \in {update_strategy(w1, a, c2, option)} :
            \E w3 \in {step_after_update(w2, a)} :
              /\ Store(w3)
              /\ trace' = [NoTrace EXCEPT
                     !.handler = "Stakeholder.step", !.agent = a,
                     !.decision_log = w2.log,
                     !.executed = a \in w3.executed,
                     !.closed = w3.closed,
                     !.ops = w3.ops, !.pending = w3.pending,
                     !.unsorted = w3.unsorted,
                     !.round_executed = trace.round_executed \/ a \in w3.executed,
                     !.ever = trace.ever \cup DOMAIN w3.pools,
                     !.same_object = w3.same_object,
                     !.wrap_ups = trace.wrap_ups,
                     !.idle_in_phase = trace.idle_in_phase,
                     !.phase_changed = trace.phase_changed,
                     !.idle_rounds = trace.idle_rounds]
              /\ probe' = [kind |-> "twice", agent |-> a, failed |-> ~Ok(w2),
                           first |-> w1.new_strategy[a],
                           second |-> w2.new_strategy[a]]
    /\ stepped' = stepped \cup {a}
    /\ UNCHANGED <<agent_activation_order, stake, steps, consecutive_idle_steps,
                   running, pc, advanced>>

NextTwice ==
    \/ BeginStep
    \/ \E a \in Agents : AgentStepTwice(a)
    \/ \E a \in Agents : AgentAdvance(a)
    \/ EndStep

SpecTwice == Init /\ [][NextTwice]_vars

\* C7: two calls of update_strategy by one agent with no execute_strategy in
\* between produce the same candidate strategy: the same owned pool ids with the
\* same pledges, costs and margins, and the same stake allocations.
C7_SameCandidateTwice ==
    probe.kind = "twice" /\ ~probe.failed => probe.first = probe.second

----------------------------------------------------------------------------
(* What update_strategy writes *)

\* C8 as stated: update_strategy writes nothing to the pool table, to the Pool
\* objects in it or to either ranking.
C8_DecisionEngineOnlyReads ==
    trace.handler = "Stakeholder.step" => trace.decision_log = {}

\* the pools the agent has delegated to
OwnAllocations(a) == DOMAIN strategy[a].stake_allocations

\* C8: during update_strategy no pool is added to or removed from the pool
\* table and pool_rankings is not written; the only writes are the ones of
\* determine_stake_allocations, to pool_rankings_myopic and to the Pool objects
\* the agent's current stake_allocations name.  A step that does not go on to
\* execute_strategy leaves the table's keys, pool_rankings and every other Pool
\* object as they were, and Simulation.step writes them only in change_phase.
C8_DecisionEngineWritesOwnDelegationsOnly ==
    [][/\ trace'.handler = "Stakeholder.step" =>
            /\ trace'.decision_log \subseteq
                   {<<"pool_rankings_myopic">>}
                       \cup {<<"pool", id>> : id \in OwnAllocations(trace'.agent)}
            /\ ~trace'.executed =>
                   /\ DOMAIN pools' = DOMAIN pools
                   /\ pool_rankings' = pool_rankings
                   /\ \A id \in DOMAIN pools \ OwnAllocations(trace'.agent) :
                          pools'[id] = pools[id]
       /\ trace'.handler = "Simulation.step" /\ trace'.outcome # "change_phase" =>
            UNCHANGED <<pools, pool_rankings, pool_rankings_myopic>>]_vars

\* an update_strategy that took the agent's delegation out of a pool of the
\* table and put it back
C8_Witness ==
    /\ trace.handler = "Stakeholder.step" /\ err = "none"
    /\ <<"pool_rankings_myopic">> \in trace.decision_log
    /\ \E id \in DOMAIN pools : <<"pool", id>> \in trace.decision_log

----------------------------------------------------------------------------
(* The search loop of choose_pool_strategy for a given k and given utilities *)
(* of operating 1 .. k pools                                                *)

InitSearch ==
    /\ InitSim
    /\ \E kk \in 1 .. MaxK : \E u \in [1 .. kk -> 0 .. MaxU] :
         probe = [kind |-> "search", k |-> kk, u |-> u, s |-> SearchStart(kk)]

\* one pass through the body of the while loop, lines 113-127
SearchStep ==
    /\ probe.kind = "search" /\ ~probe.s.solution_found
    /\ probe' = [probe EXCEPT !.s = SearchIteration(probe.u, probe.s)]
    /\ UNCHANGED simvars

NextSearch == SearchStep

SpecSearch == InitSearch /\ [][NextSearch]_vars

\* the loop keeps running while it can
SpecSearchFair == SpecSearch /\ WF_vars(NextSearch)

\* brute force: the numbers of pools in 1 .. kk without a strictly better neighbour
LocalMaxima(u, kk) ==
    {t \in 1 .. kk : /\ t > 1 => u[t - 1] <= u[t]
                     /\ t < kk => u[t + 1] <= u[t]}

\* C9: for every k >= 1 and every utility function on 1 .. k the loop of
\* choose_pool_strategy terminates, and the t it ends at lies in 1 .. k and has no
\* neighbour t - 1 or t + 1 in 1 .. k of strictly greater utility, whether or not
\* that neighbour is inside the narrowed window [t_min, t_max].
C9_SearchEndsAtLocalMaximum ==
    <>[](/\ probe.s.solution_found
         /\ probe.s.t \in LocalMaxima(probe.u, probe.k))

\* the loop has ended at the lower end of a window narrowed from below: the
\* neighbour t - 1 is outside the window
C9_Witness ==
    /\ probe.kind = "search" /\ probe.s.solution_found
    /\ probe.s.t = probe.s.t_min /\ probe.s.t > 1
    /\ probe.s.t < probe.k

----------------------------------------------------------------------------
(* The end of a round *)

\* the step of Simulation.step that follows schedule.step()
RoundEnds == pc = "schedule.step" /\ pc' = "run_model"

\* C10: at the end of a round the coordinator advances to the next phase or
\* terminates by convergence if and only if no agent executed a strategy in that
\* round and the number of consecutive idle rounds, this one included, has
\* reached iterations_after_convergence; it then changes phase when
\* current_phase < total_phases - 1 and wraps up the execution otherwise; a round
\* in which an agent executed a strategy resets the consecutive idle counter to 0.
C10_ConvergenceEndsPhaseOrRun ==
    [][RoundEnds =>
         LET idle == ~trace.round_executed
             reached == trace.idle_rounds + 1 >= iterations_after_convergence
         IN  /\ (current_phase' # current_phase \/ ~running') <=> (idle /\ reached)
             /\ idle /\ reached =>
                    IF current_phase < total_phases - 1
                    THEN /\ current_phase' = current_phase + 1
                         /\ running'
                         /\ trace'.outcome = "change_phase"
                    ELSE /\ current_phase' = current_phase
                         /\ ~running'
                         /\ trace'.outcome = "wrap_up_execution"
             /\ idle => consecutive_idle_steps' = trace.idle_rounds + 1
             /\ ~idle => consecutive_idle_steps' = 0]_vars

\* a run that ended by convergence in the last phase, two idle rounds after the
\* first phase had ended by convergence
C10_Witness ==
    /\ trace.outcome = "wrap_up_execution" /\ ~running
    /\ current_phase = total_phases - 1
    /\ consecutive_idle_steps >= iterations_after_convergence
    /\ ~trace.round_executed

----------------------------------------------------------------------------
(* Termination of run_model *)

\* the scheduler's loop reaches the next agent: step() in the first pass,
\* advance() in the second pass of SimultaneousActivation
AgentTurn ==
    /\ Active
    /\ \E a \in Agents : NextInOrder(a, stepped) /\ stepped' = stepped \cup {a}

AdvanceTurn ==
    /\ Active /\ agent_activation_order = "simultaneous" /\ stepped = Agents
    /\ \E a \in Agents : NextInOrder(a, advanced) /\ advanced' = advanced \cup {a}

\* run_model's loop enters Simulation.step; schedule.step() returns
StepTurn ==
    /\ pc = "run_model" /\ err = "none" /\ running /\ steps <= max_iterations
    /\ stepped' = {} /\ advanced' = {}
    /\ pc' = IF steps >= max_iterations THEN "run_model" ELSE "schedule.step"
    /\ running' = (steps < max_iterations)

ReturnTurn == Active /\ RoundDone /\ pc' = "run_model"

\* the loops of run_model and of the scheduler keep executing while they can
SpecFair ==
    /\ Spec
    /\ WF_<<pc, running>>(StepTurn) /\ WF_pc(ReturnTurn)
    /\ WF_stepped(AgentTurn) /\ WF_advanced(AdvanceTurn)

\* C11: run_model always terminates: the scheduler never executes more than
\* max_iterations rounds, running eventually becomes False, and running becomes
\* False only in a step where schedule.steps >= max_iterations or where
\* convergence was detected in the last phase.
C11_RunModelTerminates ==
    /\ [](steps <= max_iterations)
    /\ <>(~running)
    /\ [][running /\ ~running' =>
             \/ steps >= max_iterations
             \/ /\ RoundEnds
                /\ ~trace.round_executed
                /\ trace.idle_rounds + 1 >= iterations_after_convergence
                /\ current_phase = total_phases - 1]_vars

----------------------------------------------------------------------------
(* The phase transition *)

\* the pools a ranking holds
RankedPools(list) == {list[i].id : i \in 1 .. Len(list)} \ {0}

\* C12: immediately after change_phase every pool of the pool table has its
\* potential_profit and desirability recomputed from the parameter values of the
\* new phase and is otherwise unchanged, both rankings hold the same pools as
\* before and are sorted by the keys the new values give; the pools left the
\* rankings under the old parameters (no removal failed) and came back after
\* their fields were recomputed.
C12_PhaseChangeRecomputesAndReranks ==
    [][RoundEnds /\ current_phase' # current_phase =>
         /\ err' = "none"
         /\ DOMAIN pools' = DOMAIN pools
         /\ \A id \in DOMAIN pools :
                LET profit == calculate_potential_profit(pools[id].pledge, pools[id].cost,
                                                         a0_of(current_phase'))
                IN  pools'[id] =
                        [pools[id] EXCEPT
                            !.potential_profit = profit,
                            !.desirability =
                                calculate_pool_desirability(pools[id].margin, profit)]
         /\ RankedPools(pool_rankings') = RankedPools(pool_rankings)
         /\ RankedPools(pool_rankings_myopic') = RankedPools(pool_rankings_myopic)
         /\ Len(pool_rankings') = Len(pool_rankings)
         /\ Len(pool_rankings_myopic') = Len(pool_rankings_myopic)
         /\ FreshlySorted(pool_rankings, CurrentKey)'
         /\ FreshlySorted(pool_rankings_myopic, CurrentKeyMyopic)']_vars

\* a phase change that gave a pool another potential profit and another place
\* in the myopic ranking's keys
C12_Witness ==
    /\ trace.outcome = "change_phase" /\ err = "none" /\ current_phase > 0
    /\ \E id \in DOMAIN pools :
           /\ pools[id].potential_profit #
                  calculate_potential_profit(pools[id].pledge, pools[id].cost,
                                             a0_of(current_phase - 1))
           /\ pool_comparison_key_myopic(pools[id], a0_of(current_phase)) #
                  pool_comparison_key_myopic(pools[id], a0_of(current_phase - 1))

----------------------------------------------------------------------------
(* The delegators mapping of a pool *)

\* C13: after update_delegation(x, d) on a pool, d is a key of delegators if and
\* only if x >= MIN_STAKE_UNIT, and then delegators[d] = x; every amount stored
\* in a delegators mapping is at least MIN_STAKE_UNIT, so update_delegation(0, d)
\* for a delegator d leaves d absent from the mapping.
C13_DelegatorsHoldWholeUnits ==
    /\ \A id \in DOMAIN pools : \A d \in DOMAIN pools[id].delegators :
           pools[id].delegators[d] >= MIN_STAKE_UNIT
    /\ probe.kind = "pool" =>
           /\ \A d \in DOMAIN probe.pool.delegators :
                  probe.pool.delegators[d] >= MIN_STAKE_UNIT
           /\ probe.op = "update_delegation" =>
                  /\ probe.delegator_id \in DOMAIN probe.pool.delegators
                         <=> probe.new_delegation >= MIN_STAKE_UNIT
                  /\ probe.new_delegation >= MIN_STAKE_UNIT =>
                         probe.pool.delegators[probe.delegator_id] = probe.new_delegation

\* update_delegation(0, d) has taken a delegator out of the mapping
C13_Witness ==
    /\ probe.kind = "pool" /\ probe.op = "update_delegation"
    /\ probe.new_delegation = 0 /\ probe.was_delegator
    /\ probe.delegator_id \notin DOMAIN probe.pool.delegators

----------------------------------------------------------------------------
(* Private pools *)

\* C14: private pools hold no external delegation: between commits, under every
\* activation order, every pool of the pool table with is_private = True has an
\* empty delegators mapping and stake = pledge.
C14_PrivatePoolsHoldOnlyThePledge ==
    \A id \in DOMAIN pools :
        pools[id].is_private =>
            /\ DOMAIN pools[id].delegators = {}
            /\ pools[id].stake = pools[id].pledge

----------------------------------------------------------------------------
(* The None sentinels of a ranking, for a k that is given per phase *)

\* Simulation.__init__: k is the value of the first phase (lines 82-85) and the
\* ranking starts as [None] * (k + 1) (lines 108-111)
InitRanking ==
    /\ InitSim
    /\ \E k_values \in [1 .. 2 -> 1 .. MaxK] :
         probe = [kind |-> "ranking", k_values |-> k_values, phase |-> 0,
                  ranking |-> [i \in 1 .. (k_values[1] + 1) |-> NoneEntry],
                  next_id |-> 1, read |-> "unread"]

\* reward_scheme.k in the probe's phase
CurrentK == probe.k_values[probe.phase + 1]

\* the number of pools and of None entries in the probe's ranking
RealEntries == Cardinality({i \in 1 .. Len(probe.ranking) : probe.ranking[i].id # 0})

NoneEntries == Cardinality({i \in 1 .. Len(probe.ranking) : probe.ranking[i].id = 0})

\* open_pool: pool_rankings.add(pool), for a pool of margin 0 and any potential profit
RankingOpenPool ==
    /\ probe.kind = "ranking" /\ probe.next_id <= MaxRanked
    /\ \E potential_profit \in 0 .. MaxU :
         LET pool == [id |-> probe.next_id, potential_profit |-> potential_profit,
                      desirability |->
                          calculate_pool_desirability(RatInt(0), potential_profit)]
         IN  probe' = [probe EXCEPT
                          !.ranking = SortedListAdd(@, pool_comparison_key(pool), pool.id),
                          !.next_id = @ + 1, !.read = "unread"]
    /\ UNCHANGED simvars

\* close_pool: pool_rankings.remove(pool)
RankingClosePool ==
    /\ probe.kind = "ranking"
    /\ \E i \in 1 .. Len(probe.ranking) :
         /\ probe.ranking[i].id # 0
         /\ probe' = [probe EXCEPT
                          !.ranking = SortedListRemove(@, @[i].key, @[i].id),
                          !.read = "unread"]
    /\ UNCHANGED simvars

\* change_phase, lines 395-406: k takes the value of the next phase; the pools are
\* removed and added again, the None entries stay as they are
RankingChangePhase ==
    /\ probe.kind = "ranking" /\ probe.phase < Len(probe.k_values) - 1
    /\ probe' = [probe EXCEPT !.phase = @ + 1, !.read = "unread"]
    /\ UNCHANGED simvars

\* calculate_margin, lines 147-148: rankings[k - 1] and its potential profit
RankingRead ==
    /\ probe.kind = "ranking"
    /\ probe' = [probe EXCEPT !.read =
                     IF Len(probe.ranking) < CurrentK THEN "IndexError"
                     ELSE IF probe.ranking[CurrentK].id = 0 THEN "None"
                     ELSE "pool"]
    /\ UNCHANGED simvars

NextRanking ==
    \/ RankingOpenPool
    \/ RankingClosePool
    \/ RankingChangePhase
    \/ RankingRead

SpecRanking == InitRanking /\ [][NextRanking]_vars

\* C15: in every reachable state, also after a phase transition that changes k,
\* reading position k - 1 of the ranking is in range and yields a None sentinel
\* whenever fewer than k pools exist, and the ranking keeps k + 1 None sentinels
\* for the current k.
C15_SentinelsCoverRankK ==
    probe.kind = "ranking" =>
        /\ probe.read # "IndexError"
        /\ Len(probe.ranking) >= CurrentK
        /\ RealEntries < CurrentK /\ probe.read # "unread" => probe.read = "None"
        /\ NoneEntries = CurrentK + 1

----------------------------------------------------------------------------
(* determine_stake_allocations and find_delegation_move on pool tables of up *)
(* to MaxRanked pools                                                        *)

\* what the table's pools can look like to agent 0, who asks: a pool of its own;
\* public pools of the other agents with room for MIN_STAKE_UNIT or more, with
\* or without a delegation of agent 0; public pools one unit below saturation;
\* and private pools at saturation.  The margins make the less pledged pools
\* rank above or below the more pledged ones.
PoolShapes ==
    [owner : {0}, pledge : {MIN_STAKE_UNIT}, margin : {RatInt(0)}, delegation : {0}]
    \cup [owner : Agents \ {0}, pledge : {1},
          margin : {RatInt(0), Rat(1, 2)}, delegation : {0, MIN_STAKE_UNIT}]
    \cup [owner : Agents \ {0}, pledge : {global_saturation_threshold - MIN_STAKE_UNIT},
          margin : {RatInt(0)}, delegation : {0, MIN_STAKE_UNIT}]
    \cup [owner : Agents \ {0}, pledge : {global_saturation_threshold - 1},
          margin : {RatInt(0), Rat(1, 2)}, delegation : {0}]
    \cup [owner : Agents \ {0}, pledge : {global_saturation_threshold},
          margin : {RatInt(0)}, delegation : {0}]

\* the pool as open_pool and a later delegation leave it
ShapedPool(pool_id, shape) ==
    LET pool == set_margin(
                    NewPool(pool_id, agent_cost(shape.owner), shape.pledge, shape.owner,
                            a0_of(0), DefaultMargin,
                            shape.pledge >= get_pool_saturation_threshold(shape.pledge)),
                    shape.margin)
    IN  IF shape.delegation > 0
        THEN update_delegation(pool, shape.delegation,
                               CHOOSE b \in Agents : b # shape.owner)
        ELSE pool

\* the rankings after the pools were added in the order of their ids
RECURSIVE RankedTable(_, _, _)
RankedTable(w, table, pool_id) ==
    IF pool_id > Len(table) THEN w
    ELSE RankedTable(MyopicAdd(RankingsAdd(w, table[pool_id]), table[pool_id]),
                     table, pool_id + 1)

InitAllocate ==
    /\ agent_activation_order = "sequential"
    /\ stake = [a \in Agents |-> initial_stake(a)]
    /\ \E n \in 1 .. MaxRanked : \E shapes \in [1 .. n -> PoolShapes] :
       \E table \in {[id \in 1 .. n |-> ShapedPool(id, shapes[id])]} :
       \E w \in {RankedTable([pr |-> InitialRanking, prm |-> InitialRanking,
                              phase |-> 0, err |-> "none", log |-> {}], table, 1)} :
         /\ pools = table
         /\ pool_rankings = w.pr
         /\ pool_rankings_myopic = w.prm
         /\ strategy = [a \in Agents |->
                [stake_allocations |->
                     [id \in {i \in 1 .. n : /\ shapes[i].delegation > 0
                                              /\ shapes[i].owner # a}
                         |-> shapes[id].delegation],
                 owned_pools |-> {i \in 1 .. n : shapes[i].owner = a}]]
         /\ id_seq = n
    /\ new_strategy = [a \in Agents |-> None]
    /\ steps = 0
    /\ current_phase = 0
    /\ consecutive_idle_steps = 0
    /\ current_step_idle = TRUE
    /\ running = TRUE
    /\ pc = "schedule.step"
    /\ stepped = {}
    /\ advanced = {}
    /\ err = "none"
    /\ trace = NoTrace
    /\ \E stake_to_delegate \in 0 .. MaxDelegate :
         probe = [kind |-> "allocate", op |-> "none", agent |-> 0,
                  stake_to_delegate |-> stake_to_delegate,
                  before |-> [pools |-> pools, pool_rankings |-> pool_rankings,
                              pool_rankings_myopic |-> pool_rankings_myopic],
                  none |-> FALSE, allocations |-> EmptyMap, owned_pools |-> EmptyMap,
                  log |-> {}, pool |-> None, margin |-> RatInt(0),
                  num_pools_to_keep |-> 0, kept |-> EmptyMap]

\* self.determine_stake_allocations(stake_to_delegate), as find_delegation_move
\* calls it: with at least MIN_STAKE_UNIT to delegate
DetermineStakeAllocationsCall ==
    /\ probe.kind = "allocate" /\ probe.op = "none"
    /\ probe.stake_to_delegate >= MIN_STAKE_UNIT
    /\ \E r \in {determine_stake_allocations(World, probe.agent, probe.stake_to_delegate)} :
         /\ Store(r.w)
         /\ probe' = [probe EXCEPT !.op = "determine_stake_allocations",
                                   !.none = r.none, !.allocations = r.allocations,
                                   !.log = r.w.log]
    /\ UNCHANGED <<agent_activation_order, stake, steps, consecutive_idle_steps,
                   running, pc, stepped, advanced, trace>>

\* self.find_delegation_move(stake_to_delegate)
FindDelegationMoveCall ==
    /\ probe.kind = "allocate" /\ probe.op = "none"
    /\ \E r \in {find_delegation_move(World, probe.agent, probe.stake_to_delegate)} :
         /\ Store(r.w)
         /\ probe' = [probe EXCEPT !.op = "find_delegation_move",
                                   !.allocations = r.strategy.stake_allocations,
                                   !.owned_pools = r.strategy.owned_pools,
                                   !.log = r.w.log]
    /\ UNCHANGED <<agent_activation_order, stake, steps, consecutive_idle_steps,
                   running, pc, stepped, advanced, trace>>

\* self.calculate_margin(pool) for a pool the agent considers to open, as
\* find_operator_move creates it (lines 193-201); the call takes no stake, so
\* it is made once per table
CalculateMarginCall ==
    /\ probe.kind = "allocate" /\ probe.op = "none"
    /\ probe.stake_to_delegate = 0
    /\ \E pledge \in 1 .. global_saturation_threshold :
       \E pool \in {NewPool(id_seq + 1, agent_cost(probe.agent), pledge, probe.agent,
                            a0_of(current_phase), DefaultMargin,
                            pledge >= get_pool_saturation_threshold(pledge))} :
         probe' = [probe EXCEPT !.op = "calculate_margin", !.pool = pool,
                                !.margin = calculate_margin(World, probe.agent, pool)]
    /\ UNCHANGED simvars

\* self.determine_pools_to_keep(num_pools_to_keep) of any agent; the call takes
\* no stake, so it is made once per table
DeterminePoolsToKeepCall ==
    /\ probe.kind = "allocate" /\ probe.op = "none"
    /\ probe.stake_to_delegate = 0
    /\ \E a \in Agents : \E num_pools_to_keep \in 0 .. MaxRanked :
         probe' = [probe EXCEPT
                      !.op = "determine_pools_to_keep", !.agent = a,
                      !.num_pools_to_keep = num_pools_to_keep,
                      !.kept = determine_pools_to_keep(World, a, num_pools_to_keep)]
    /\ UNCHANGED simvars

NextAllocate ==
    \/ DetermineStakeAllocationsCall
    \/ FindDelegationMoveCall
    \/ CalculateMarginCall
    \/ DeterminePoolsToKeepCall

SpecAllocate == InitAllocate /\ [][NextAllocate]_vars

\* the call of determine_stake_allocations that returned allocations
Allocated ==
    /\ probe.kind = "allocate" /\ probe.op = "determine_stake_allocations"
    /\ ~probe.none

\* the position of a pool in the ranking the agent read
RankAt(pool_id) ==
    CHOOSE i \in 1 .. Len(probe.before.pool_rankings) :
        probe.before.pool_rankings[i].id = pool_id

\* the pools the agent may delegate to
Eligible ==
    {id \in DOMAIN probe.before.pools :
        /\ ~probe.before.pools[id].is_private
        /\ probe.before.pools[id].owner # probe.agent}

\* the stake of a pool once the agent's own current delegation is taken out
RetractedStake(pool_id) ==
    LET pool == probe.before.pools[pool_id]
    IN  IF /\ pool_id \in DOMAIN strategy[probe.agent].stake_allocations
           /\ probe.agent \in DOMAIN pool.delegators
        THEN pool.stake - pool.delegators[probe.agent]
        ELSE pool.stake

Headroom(pool_id) ==
    get_pool_saturation_threshold(probe.before.pools[pool_id].pledge)
        - RetractedStake(pool_id)

Unsaturated == {id \in Eligible : Headroom(id) >= MIN_STAKE_UNIT}

\* the stake left when the scan reaches the pool
RemainingAt(pool_id) ==
    probe.stake_to_delegate
        - SumOver(probe.allocations,
                  {j \in DOMAIN probe.allocations \cap Unsaturated :
                      RankAt(j) < RankAt(pool_id)})

\* C16: determine_stake_allocations allocates only to public pools of other
\* agents; each unsaturated pool it allocates to gets the smaller of the stake
\* remaining when the scan reaches it and its headroom, measured after the
\* agent's own delegation was retracted, so it is not pushed above its
\* saturation threshold; and a lower-ranked unsaturated pool gets stake only if
\* every higher-ranked eligible unsaturated pool was filled to its threshold.
C16_GreedyFillInRankingOrder ==
    Allocated =>
        /\ DOMAIN probe.allocations \subseteq Eligible
        /\ \A id \in DOMAIN probe.allocations \cap Unsaturated :
              /\ probe.allocations[id] = Min2(RemainingAt(id), Headroom(id))
              /\ RetractedStake(id) + probe.allocations[id]
                    <= get_pool_saturation_threshold(probe.before.pools[id].pledge)
        /\ \A i \in Unsaturated : \A j \in DOMAIN probe.allocations \cap Unsaturated :
              RankAt(i) < RankAt(j) =>
                  /\ i \in DOMAIN probe.allocations
                  /\ probe.allocations[i] = Headroom(i)

\* two unsaturated pools received stake, the agent delegating to one of them
\* already, and a private pool and a pool of its own were passed over
C16_Witness ==
    /\ Allocated
    /\ \E i, j \in DOMAIN probe.allocations \cap Unsaturated :
          /\ RankAt(i) < RankAt(j)
          /\ RetractedStake(i) < probe.before.pools[i].stake
    /\ DOMAIN probe.before.pools \ Eligible # {}

\* the eligible pools without room for MIN_STAKE_UNIT
Saturated == Eligible \ Unsaturated

\* what the scan left over
Remainder ==
    probe.stake_to_delegate
        - SumOver(probe.allocations, DOMAIN probe.allocations \cap Unsaturated)

\* the remainder went as a whole to the highest-ranked saturated pool
RemainderInBestSaturated ==
    \E best \in Saturated :
        /\ \A j \in Saturated : RankAt(best) <= RankAt(j)
        /\ DOMAIN probe.allocations \cap Saturated = {best}
        /\ probe.allocations[best] = Remainder
        /\ SumMap(probe.allocations) = probe.stake_to_delegate

\* C17 as stated: whenever at least MIN_STAKE_UNIT remains after the scan, the
\* remainder is assigned as a whole to the highest-ranked saturated eligible
\* pool, no other saturated pool gets stake, and the allocations sum to
\* stake_to_delegate.
C17_RemainderAlwaysAssigned ==
    Allocated /\ Remainder >= MIN_STAKE_UNIT => RemainderInBestSaturated

\* C17: whenever at least MIN_STAKE_UNIT remains after the scan and some eligible
\* pool is saturated, the remainder is assigned as a whole to the highest-ranked
\* saturated eligible pool, no other saturated pool gets stake, and the
\* allocations sum to stake_to_delegate; when no eligible pool is saturated the
\* remainder stays undelegated; and when less than MIN_STAKE_UNIT remains no
\* saturated pool gets stake.
C17_RemainderToBestSaturatedIfAny ==
    Allocated =>
        /\ Remainder >= MIN_STAKE_UNIT /\ Saturated # {} => RemainderInBestSaturated
        /\ Remainder >= MIN_STAKE_UNIT /\ Saturated = {} =>
              SumMap(probe.allocations) = probe.stake_to_delegate - Remainder
        /\ Remainder < MIN_STAKE_UNIT => DOMAIN probe.allocations \cap Saturated = {}

\* a remainder went to the better of two saturated pools after an unsaturated
\* pool was filled
C17_Witness ==
    /\ Allocated
    /\ Remainder >= MIN_STAKE_UNIT
    /\ Remainder < probe.stake_to_delegate
    /\ \E i, j \in Saturated : i # j
    /\ RemainderInBestSaturated

\* C18: when update_strategy returns without an exception, and with it every
\* call of determine_stake_allocations it made, each pool's stake and delegators,
\* the keys of the pool table and the order of both rankings are what they were
\* before the call.
C18_RetractRestoreIsNetNeutral ==
    [][trace'.handler = "Stakeholder.step" /\ ~trace'.executed /\ err' = "none" =>
           /\ DOMAIN pools' = DOMAIN pools
           /\ \A id \in DOMAIN pools :
                 /\ pools'[id].stake = pools[id].stake
                 /\ pools'[id].delegators = pools[id].delegators
           /\ pool_rankings' = pool_rankings
           /\ pool_rankings_myopic' = pool_rankings_myopic]_vars

\* the same for one call of determine_stake_allocations or find_delegation_move
\* on a pool table whose delegators agree with the agents' allocations
NeutralOnAgreeingTable ==
    probe.kind = "allocate" /\ probe.op # "none" =>
        /\ pools = probe.before.pools
        /\ pool_rankings = probe.before.pool_rankings
        /\ pool_rankings_myopic = probe.before.pool_rankings_myopic

\* C19: find_delegation_move raises nothing and returns a Strategy with empty
\* stake_allocations and no owned pools when no eligible pool exists and when
\* stake_to_delegate is below MIN_STAKE_UNIT; in the latter case it writes no
\* pool and no ranking (determine_stake_allocations is not called).
C19_NoDelegationMoveIsEmptyStrategy ==
    probe.kind = "allocate" /\ probe.op = "find_delegation_move" =>
        /\ probe.stake_to_delegate < MIN_STAKE_UNIT \/ Eligible = {} =>
              /\ err = "none"
              /\ probe.allocations = EmptyMap
              /\ probe.owned_pools = EmptyMap
        /\ probe.stake_to_delegate < MIN_STAKE_UNIT =>
              /\ probe.log = {}
              /\ pools = probe.before.pools
              /\ pool_rankings = probe.before.pool_rankings
              /\ pool_rankings_myopic = probe.before.pool_rankings_myopic

\* find_delegation_move returned for an agent with stake to delegate that saw
\* only private pools and pools of its own
C19_Witness ==
    /\ probe.kind = "allocate" /\ probe.op = "find_delegation_move"
    /\ probe.stake_to_delegate >= MIN_STAKE_UNIT
    /\ Eligible = {}
    /\ \E i, j \in DOMAIN pools : pools[i].is_private /\ pools[j].owner = probe.agent
    /\ probe.allocations = EmptyMap

\* find_delegation_move returned for an agent with less than MIN_STAKE_UNIT to
\* delegate, current delegations and eligible pools
BelowMinimumSkipped ==
    /\ probe.kind = "allocate" /\ probe.op = "find_delegation_move"
    /\ probe.stake_to_delegate < MIN_STAKE_UNIT
    /\ Eligible # {}
    /\ DOMAIN strategy[probe.agent].stake_allocations # {}

\* the calls of the given kind among the first n of the last execute_strategy
OpsOf(kind, from, to) ==
    {trace.ops[i][2] : i \in {j \in from .. to : trace.ops[j][1] = kind}}

\* C20: an execute_strategy that returns has closed every pool of the old
\* strategy that the pending one does not own, then updated every pool both own,
\* then opened every pool only the pending one owns, each once; afterwards the
\* agent's strategy is the pending strategy as it was, allocations and owned
\* pools, and new_strategy is None.
C20_CloseUpdateOpenThenSwap ==
    [][trace'.executed /\ err' = "none" =>
         \E a \in {trace'.agent} : \E new \in {DOMAIN trace'.pending.owned_pools} :
         \E old \in {strategy[a].owned_pools} :
           /\ Len(trace'.ops) = Cardinality(old \cup new)
           /\ \E i, j \in 0 .. Len(trace'.ops) :
                 /\ i <= j
                 /\ OpsOf("close_pool", 1, i)' = old \ new
                 /\ OpsOf("update_pool", i + 1, j)' = old \cap new
                 /\ OpsOf("open_pool", j + 1, Len(trace.ops))' = new \ old
           /\ strategy'[a].stake_allocations = trace'.pending.stake_allocations
           /\ strategy'[a].owned_pools = new
           /\ new_strategy'[a] = None]_vars

\* an execute_strategy that returned after calls of two of the three kinds
C20_Witness ==
    /\ trace.executed /\ err = "none"
    /\ \E i, j \in 1 .. Len(trace.ops) : trace.ops[i][1] # trace.ops[j][1]

\* C21: no handler changes the stake, margin, pledge, cost or potential_profit
\* of a Pool object while a ranking whose key reads that field holds the object
\* (the retraction and the restore of determine_stake_allocations, the
\* delegation loops of execute_strategy, close_pool with remove_delegations,
\* update_pool and change_phase), no remove fails to find its pool, and both
\* rankings are in the order of their keys after every handler.
C21_RemoveBeforeMutate ==
    /\ trace.unsorted = {}
    /\ err \notin {"ValueError: pool_rankings.remove",
                   "ValueError: pool_rankings_myopic.remove"}
    /\ err = "none" =>
          /\ FreshlySorted(pool_rankings, CurrentKey)
          /\ FreshlySorted(pool_rankings_myopic, CurrentKeyMyopic)

\* a commit that closed a pool holding delegations, which remove_delegations
\* took out of the pool after the pool had left both rankings
C21_Witness ==
    /\ trace.executed /\ err = "none"
    /\ \E c \in trace.closed : c[2] # {}
    /\ trace.unsorted = {}

\* the entry at position k-1 (counted from 0) of the non-myopic ranking
ReferenceEntry == pool_rankings[k]

ReferenceDesirability ==
    IF ReferenceEntry.id = 0 THEN RatInt(0) ELSE pools[ReferenceEntry.id].desirability

ReferencePotentialProfit ==
    IF ReferenceEntry.id = 0 THEN 0 ELSE pools[ReferenceEntry.id].potential_profit

\* the desirability of the pool with the margin calculate_margin returned
ResultingDesirability == set_margin(probe.pool, probe.margin).desirability

\* C22 as stated: for a public pool whose potential profit is at least the
\* desirability of the pool at position k-1 of the non-myopic ranking (0 for a
\* sentinel), calculate_margin returns the margin that makes the pool's
\* desirability equal to that desirability; for a private pool it returns 0.
C22_MarginMatchesReferenceDesirability ==
    probe.kind = "allocate" /\ probe.op = "calculate_margin" =>
        /\ probe.pool.is_private => probe.margin = RatInt(0)
        /\ /\ ~probe.pool.is_private
           /\ RatLeq(ReferenceDesirability, RatInt(probe.pool.potential_profit))
           => ResultingDesirability = ReferenceDesirability

\* C22: for a public pool whose potential profit is at least the potential
\* profit of the pool at position k-1 of the non-myopic ranking (0 for a
\* sentinel), calculate_margin returns the margin that makes the pool's
\* desirability equal to that potential profit; for a public pool with less
\* potential profit it returns 0; for a private pool it returns 0.
C22_MarginMatchesReferencePotentialProfit ==
    probe.kind = "allocate" /\ probe.op = "calculate_margin" =>
        /\ probe.pool.is_private => probe.margin = RatInt(0)
        /\ ~probe.pool.is_private =>
              IF probe.pool.potential_profit >= ReferencePotentialProfit
              THEN ResultingDesirability = RatInt(ReferencePotentialProfit)
              ELSE probe.margin = RatInt(0)

\* calculate_margin returned a margin above 0 for a public pool, with a
\* reference pool that takes a margin itself
C22_Witness ==
    /\ probe.kind = "allocate" /\ probe.op = "calculate_margin"
    /\ ~probe.pool.is_private
    /\ ReferenceEntry.id # 0
    /\ RatLess(RatInt(0), pools[ReferenceEntry.id].margin)
    /\ RatLess(RatInt(0), probe.margin)

\* (desirability, potential_profit, stake, -id) of a pool of the table
RetentionKey(pool_id) ==
    <<pools[pool_id].desirability, RatInt(pools[pool_id].potential_profit),
      RatInt(pools[pool_id].stake), RatInt(-pool_id)>>

\* C23: determine_pools_to_keep(n) returns copies of exactly min(n, number of
\* owned pools) of the agent's pools; no discarded pool is greater than a kept
\* one under (desirability, potential_profit, stake, -id), and of two pools that
\* tie on the first three the one with the lower id is kept; the pools of the
\* table are as they were.
C23_BestPoolsAreKept ==
    probe.kind = "allocate" /\ probe.op = "determine_pools_to_keep" =>
        \E owned \in {strategy[probe.agent].owned_pools} :
        \E kept \in {DOMAIN probe.kept} :
          /\ kept \subseteq owned
          /\ Cardinality(kept) = Min2(probe.num_pools_to_keep, Cardinality(owned))
          /\ \A id \in kept : probe.kept[id] = pools[id]
          /\ \A d \in owned \ kept : \A j \in kept :
                /\ ~TupleLess(RetentionKey(j), RetentionKey(d))
                /\ SubSeq(RetentionKey(j), 1, 3) = SubSeq(RetentionKey(d), 1, 3) => j < d
          /\ pools = probe.before.pools

\* a younger pool was kept and an older one of the same agent discarded
C23_Witness ==
    /\ probe.kind = "allocate" /\ probe.op = "determine_pools_to_keep"
    /\ \E d \in strategy[probe.agent].owned_pools \ DOMAIN probe.kept :
       \E j \in DOMAIN probe.kept : d < j

\* two pools tied on desirability, potential profit and stake, one was kept
KeptOnFullTie ==
    /\ probe.kind = "allocate" /\ probe.op = "determine_pools_to_keep"
    /\ \E d \in strategy[probe.agent].owned_pools \ DOMAIN probe.kept :
       \E j \in DOMAIN probe.kept :
          SubSeq(RetentionKey(j), 1, 3) = SubSeq(RetentionKey(d), 1, 3)

\* C24: id_seq never goes down; every pool a candidate strategy newly holds has
\* an id above the value id_seq had before the decision (so an id consumed by a
\* candidate that was not opened is not handed out again); no two agents hold
\* the same id; and a pool that enters the table has an id no pool of the table
\* ever had.
C24_PoolIdsAreNeverReused ==
    [][/\ id_seq' >= id_seq
       /\ \A id \in DOMAIN pools' : id <= id_seq'
       /\ \A a \in Agents :
             /\ \A id \in DOMAIN new_strategy'[a].owned_pools
                           \ DOMAIN new_strategy[a].owned_pools :
                   \/ id \in strategy[a].owned_pools
                   \/ id > id_seq /\ id <= id_seq'
             /\ \A b \in Agents \ {a} :
                   DOMAIN new_strategy'[a].owned_pools
                       \cap DOMAIN new_strategy'[b].owned_pools = {}
       /\ \A id \in DOMAIN pools' \ DOMAIN pools : id \notin trace.ever]_vars

\* a pool is open whose id is above the id of a closed pool and above an id that
\* a candidate consumed without the pool ever being opened
C24_Witness ==
    /\ err = "none"
    /\ \E id \in DOMAIN pools :
          /\ \E c \in trace.ever \ DOMAIN pools : c < id
          /\ \E d \in 1 .. id : d \notin trace.ever

----------------------------------------------------------------------------
(* The place of the None sentinels in the two rankings *)

\* the entries of a ranking that are None all come after the entries that are pools
SentinelsLast(list) ==
    \A i, j \in 1 .. Len(list) : list[i].id = 0 /\ list[j].id # 0 => j < i

\* C25: in both rankings every None sentinel is ordered after every real pool:
\* the key of every pool of the table, one of desirability or myopic
\* desirability 0 included, is smaller than the key of None, (0, 0, 0).
C25_SentinelsAfterRealPools ==
    /\ \A id \in DOMAIN pools :
          /\ TupleLess(pool_comparison_key(pools[id]), NoneKey)
          /\ TupleLess(pool_comparison_key_myopic(pools[id], a0_of(current_phase)), NoneKey)
    /\ err = "none" =>
          /\ SentinelsLast(pool_rankings)
          /\ SentinelsLast(pool_rankings_myopic)

\* the same for the non-myopic ranking alone
SentinelsLastNonMyopic ==
    /\ \A id \in DOMAIN pools : TupleLess(pool_comparison_key(pools[id]), NoneKey)
    /\ err = "none" => SentinelsLast(pool_rankings)

\* and for the pools of the myopic ranking whose myopic desirability is not 0
SentinelsLastMyopicPositive ==
    \A id \in DOMAIN pools :
        LET key == pool_comparison_key_myopic(pools[id], a0_of(current_phase))
        IN  key[1] # RatInt(0) => TupleLess(key, NoneKey)

----------------------------------------------------------------------------
(* The two sides of the delegation bookkeeping *)

\* agent d's allocation to pool p and pool p's entry for delegator d are both
\* absent or both present with the same amount
DelegationAgrees(d, p) ==
    /\ d \in DOMAIN pools[p].delegators <=> p \in DOMAIN strategy[d].stake_allocations
    /\ d \in DOMAIN pools[p].delegators =>
           pools[p].delegators[d] = strategy[d].stake_allocations[p]

\* C26: between commits, under every activation order, for every agent d and
\* every pool p of the pool table, d is a key of p.delegators if and only if p is
\* a key of d.strategy.stake_allocations, with equal amounts, and every key of an
\* agent's stake_allocations is a pool of the table.
C26_DelegationBookkeepingAgrees ==
    err = "none" =>
        \A d \in Agents :
            /\ \A p \in DOMAIN pools : DelegationAgrees(d, p)
            /\ DOMAIN strategy[d].stake_allocations \subseteq DOMAIN pools

\* the same when every decision is committed before the next one is made
DelegationAgreesInTurn ==
    agent_activation_order # "simultaneous" => C26_DelegationBookkeepingAgrees

----------------------------------------------------------------------------
(* The two sides of the ownership bookkeeping *)

\* the pools of the table that name the agent as their owner
OwnedInTable(a) == {id \in DOMAIN pools : pools[id].owner = a}

\* C27: between commits, for every agent a, the ids of the table's pools whose
\* owner is a are the keys of a.strategy.owned_pools, and for each of them the
\* table holds the very Pool object that a.strategy.owned_pools holds.
C27_OwnershipBookkeepingAgrees ==
    err = "none" =>
        \A a \in Agents :
            /\ OwnedInTable(a) = strategy[a].owned_pools
            /\ trace.same_object[a] = strategy[a].owned_pools

\* an operator kept a pool in a commit (update_pool) and opened another one, and
\* a pool of the table carries a delegation
C27_Witness ==
    /\ err = "none"
    /\ \E op \in 1 .. Len(trace.ops) : trace.ops[op][1] = "update_pool"
    /\ \E a \in Agents : Cardinality(strategy[a].owned_pools) = 2
    /\ \E id \in DOMAIN pools : pools[id].delegators # EmptyMap

----------------------------------------------------------------------------
(* The stake a strategy commits *)

\* the pledges of the pools of a candidate strategy plus its allocations
CandidateStake(s) ==
    SumMap([id \in DOMAIN s.owned_pools |-> s.owned_pools[id].pledge])
        + SumMap(s.stake_allocations)

\* the pledges of the agent's pools in the table plus its allocations
CommittedStake(a) ==
    SumMap([id \in strategy[a].owned_pools \cap DOMAIN pools |-> pools[id].pledge])
        + SumMap(strategy[a].stake_allocations)

\* C28: an agent never commits more stake than it has: the allocations of every
\* candidate are at most the stake left to delegate (the stake, less the pledges
\* of the candidate's pools), so in every candidate strategy, staged or being
\* executed, and in every committed strategy the pledges of the owned pools plus
\* the allocations are at most the agent's stake.
C28_CommittedStakeWithinStake ==
    err = "none" =>
        /\ \A a \in Agents :
              /\ CommittedStake(a) <= stake[a]
              /\ new_strategy[a].some => CandidateStake(new_strategy[a]) <= stake[a]
        /\ trace.pending.some => CandidateStake(trace.pending) <= stake[trace.agent]

\* an operator that keeps part of its stake out of its pools and delegates it
C28_Witness ==
    /\ err = "none" /\ trace.executed
    /\ \E a \in Agents :
          /\ strategy[a].owned_pools # {}
          /\ strategy[a].stake_allocations # EmptyMap
          /\ CommittedStake(a) = stake[a]

\* determine_stake_allocations returns allocations of at most stake_to_delegate
AllocationsWithinStakeToDelegate ==
    probe.kind = "allocate" /\ probe.op # "none" =>
        SumMap(probe.allocations) <= probe.stake_to_delegate

----------------------------------------------------------------------------
(* The idle rounds of a phase *)

\* C29: each phase needs its own full run of idle rounds: when Simulation.step
\* changes the phase or ends the run by convergence, at least
\* iterations_after_convergence consecutive idle rounds have taken place since
\* the last change of phase (trace.idle_in_phase counts them, the round that just
\* ended included).
C29_IdleRoundsCountPerPhase ==
    trace.outcome \in {"change_phase", "wrap_up_execution"} =>
        trace.idle_in_phase >= iterations_after_convergence

\* the same for the first phase alone
IdleRoundsBeforeFirstPhaseChange ==
    trace.outcome = "change_phase" /\ current_phase = 1 =>
        trace.idle_in_phase >= iterations_after_convergence

----------------------------------------------------------------------------
(* wrap_up_execution *)

\* wrap_up_execution has run once when running is False and not at all before
WrapUpWhenRunningEnds == trace.wrap_ups = IF running THEN 0 ELSE 1

\* no handler runs once wrap_up_execution has run: no scheduler round, no
\* change_phase, no further Simulation.step
NothingAfterWrapUp == [][trace.wrap_ups = 0]_vars

\* C30: wrap_up_execution is invoked exactly once per run_model, on the step that
\* sets running to False, and no scheduler round and no change_phase is executed
\* after it.
C30_WrapUpExactlyOnce ==
    /\ [](trace.wrap_ups = IF running THEN 0 ELSE 1)
    /\ <>(trace.wrap_ups = 1)
    /\ [][trace.wrap_ups = 0]_vars

\* a run that is not ended by an exception invokes wrap_up_execution
WrapUpUnlessException == <>(trace.wrap_ups = 1 \/ err # "none")

====
